---- MODULE Spec2Model ----
(***************************************************************************)
(* Inheritance-tax calculator (models/asset.py, calculator/*.py).          *)
(*                                                                         *)
(* The calculator is a set of pure functions over one InheritanceInfo.     *)
(* Amounts are Python ints (arbitrary precision, in won) and several steps *)
(* go through Python floats (IEEE-754 binary64).  TLC's integers are 32    *)
(* bits wide, so both number types are modelled here explicitly:           *)
(*   - an int is a little-endian sequence of limbs base Base, all limbs of *)
(*     one sign, without a zero top limb (<<0, 0, 5>> is 500,000,000);     *)
(*   - a float is [neg, m, e], the value (-1)^neg * m * 2^e with m < 2^53  *)
(*     or m = 2^53, every operation rounding to nearest, ties to even.     *)
(***************************************************************************)
EXTENDS Integers, Sequences, FiniteSets, TLC

(***************************************************************************)
(* Python int: magnitudes.  Carries are computed by look-ahead and sums     *)
(* over the limbs are written out to twelve limbs (10^48); every operator   *)
(* computes its arguments before it uses them.                              *)
(***************************************************************************)
Base == 100 * 100

\* f[1] + ... + f[12]
Sum12(f) ==
    (((f[1] + f[2]) + (f[3] + f[4])) + ((f[5] + f[6]) + (f[7] + f[8])))
        + ((f[9] + f[10]) + (f[11] + f[12]))

\* a function on 1..n as a sequence, every element evaluated once
AsSeq(f, n) == SubSeq(f, 1, n)

\* `value`, after the values in `first` have been computed, in their order.
\* (TLC computes an argument where it is first used, on top of the stack of
\* everything that led there; computing it first keeps that stack short.)
Strict(first, value) == IF first = first THEN value ELSE value

\* The element of a set of one: Only({ body : name \in {value} }) is `body`
\* where `name` is `value`, with `value` computed once however often `body`
\* uses it.
Only(S) == CHOOSE element \in S : TRUE

MDigit(a, i) == IF 1 <= i /\ i <= Len(a) THEN a[i] ELSE 0

\* without the zero limbs at the top
MTrim(a) ==
    Strict(a,
        SubSeq(a, 1, Cardinality({i \in 1..Len(a) : \E j \in i..Len(a) : a[j] /= 0})))

MAdd(a, b) ==
    Strict(<<a, b>>,
        Only({ MTrim(AsSeq([i \in 1..(Len(s) + 1) |->
                   (MDigit(s, i)
                       + (IF \E j \in 1..(i - 1) :
                                 s[j] >= Base /\ \A k \in (j + 1)..(i - 1) : s[k] = Base - 1
                          THEN 1 ELSE 0)) % Base], Len(s) + 1))
               : s \in {AsSeq([i \in 1..(IF Len(a) < Len(b) THEN Len(b) ELSE Len(a)) |->
                                  MDigit(a, i) + MDigit(b, i)],
                              IF Len(a) < Len(b) THEN Len(b) ELSE Len(a))} }))

\* a - b for a >= b
MSub(a, b) ==
    Strict(<<a, b>>,
        Only({ MTrim(AsSeq([i \in 1..Len(s) |->
                   (s[i] - (IF \E j \in 1..(i - 1) :
                                   s[j] < 0 /\ \A k \in (j + 1)..(i - 1) : s[k] = 0
                            THEN 1 ELSE 0)) % Base], Len(s)))
               : s \in {AsSeq([i \in 1..Len(a) |-> a[i] - MDigit(b, i)], Len(a))} }))

\* -1, 0, 1 as a < b, a = b, a > b
MCmp(a, b) ==
    Strict(<<a, b>>,
        IF a = b THEN 0
        ELSE IF Len(a) /= Len(b) THEN (IF Len(a) < Len(b) THEN -1 ELSE 1)
        ELSE IF \E i \in 1..Len(a) :
                    a[i] < b[i] /\ \A k \in (i + 1)..Len(a) : a[k] = b[k]
             THEN -1 ELSE 1)

\* a * k for a machine-size k, 0 <= k <= Base
MScale(a, k) ==
    Strict(a,
        MAdd(AsSeq([i \in 1..Len(a) |-> (a[i] * k) % Base], Len(a)),
             AsSeq([i \in 1..(Len(a) + 1) |-> IF i = 1 THEN 0 ELSE (a[i - 1] * k) \div Base],
                   Len(a) + 1)))

\* a * b, both of at most twelve limbs: the sums conv[k] of the limb products
\* stay below 12 * Base^2, and are split into three rows of limbs
MMul(a, b) ==
    Strict(<<a, b>>,
        Only({ MAdd(MAdd(AsSeq([k \in 1..Len(conv) |-> conv[k] % Base], Len(conv)),
                         AsSeq([k \in 1..(Len(conv) + 1) |->
                                   IF k = 1 THEN 0 ELSE (conv[k - 1] \div Base) % Base],
                               Len(conv) + 1)),
                    AsSeq([k \in 1..(Len(conv) + 2) |->
                              IF k <= 2 THEN 0 ELSE conv[k - 2] \div (Base * Base)],
                          Len(conv) + 2))
               : conv \in {AsSeq([k \in 1..(Len(a) + Len(b)) |->
                                     Sum12([i \in 1..12 |->
                                               MDigit(a, i) * MDigit(b, k + 1 - i)])],
                                 Len(a) + Len(b))} }))

\* <<Base^0 mod k, ..., Base^(n-1) mod k>>
RECURSIVE PowersMod(_, _)
PowersMod(k, n) ==
    IF n = 1 THEN <<1 % k>>
    ELSE Only({ Append(pw, (pw[n - 1] * (Base % k)) % k) : pw \in {PowersMod(k, n - 1)} })

\* (the number made of the limbs i, i+1, ... of a) mod k, given pw = PowersMod(k, 12)
MRemFrom(a, k, pw, i) ==
    Sum12([j \in 1..12 |->
              IF i <= j /\ j <= Len(a) THEN ((a[j] % k) * pw[j - i + 1]) % k ELSE 0])
        % k

\* floor(a / k) for a machine-size k, 0 < k <= 2^15
MQuot(a, k) ==
    Strict(a,
        Only({ MTrim(AsSeq([i \in 1..Len(a) |->
                               (MRemFrom(a, k, pw, i + 1) * Base + a[i]) \div k], Len(a)))
               : pw \in {PowersMod(k, 12)} }))

\* One step of long division by d (Knuth's algorithm D; the top limb of d is
\* at least Base / 2): the remainder st.r takes the next limb x, the quotient
\* st.q its next limb, which is at most two below the estimate qhat made from
\* the top limbs.
DivStep(st, d, x) ==
    Strict(<<st, d>>,
        Only({ Only({ Only({ [q |-> MTrim(<<q>> \o st.q), r |-> MSub(r, MScale(d, q))]
                             : q \in {qhat - Cardinality({c \in (qhat - 1)..qhat :
                                          c >= 0 /\ MCmp(MScale(d, c), r) > 0})} })
                      : qhat \in {IF (MDigit(r, Len(d) + 1) * Base + MDigit(r, Len(d)))
                                         \div d[Len(d)] > Base - 1
                                  THEN Base - 1
                                  ELSE (MDigit(r, Len(d) + 1) * Base + MDigit(r, Len(d)))
                                         \div d[Len(d)]} })
               : r \in {MTrim(<<x>> \o st.r)} }))

\* the division steps for the limbs k, k - 1, ..., 1 of n
RECURSIVE DivLoop(_, _, _, _)
DivLoop(st, d, n, k) ==
    Strict(st, IF k = 0 THEN st ELSE DivLoop(DivStep(st, d, n[k]), d, n, k - 1))

\* <<floor(n / d), whether n mod d is not zero>> for d > 0
MDivSticky(n0, d0) ==
    Strict(<<n0, d0>>,
        Only({ Only({ <<st.q, st.r /= <<>> >>
                      : st \in {DivLoop([q |-> <<>>,
                                         r |-> SubSeq(n, Len(n) - skip + 1, Len(n))],
                                        d, n, Len(n) - skip)} })
               : d \in {MScale(d0, Base \div (d0[Len(d0)] + 1))},
                 n \in {MScale(n0, Base \div (d0[Len(d0)] + 1))},
                 skip \in {IF Len(d0) - 1 < Len(n0) THEN Len(d0) - 1 ELSE Len(n0)} }))

(***************************************************************************)
(* Python int: signed values                                               *)
(***************************************************************************)
ZSign(a) == IF a = <<>> THEN 0 ELSE IF a[Len(a)] < 0 THEN -1 ELSE 1

ZNeg(a) == Strict(a, AsSeq([i \in 1..Len(a) |-> 0 - a[i]], Len(a)))

ZAbs(a) == Strict(a, AsSeq([i \in 1..Len(a) |-> IF a[i] < 0 THEN 0 - a[i] ELSE a[i]], Len(a)))

\* the int with sign s (-1 or 1) and magnitude m
ZMake(s, m) == Strict(m, AsSeq([i \in 1..Len(m) |-> IF s < 0 THEN 0 - m[i] ELSE m[i]], Len(m)))

\* the int of a machine-size number
Z(n) ==
    MTrim(<<(IF n < 0 THEN 0 - ((0 - n) % Base) ELSE n % Base),
            (IF n < 0 THEN 0 - (((0 - n) \div Base) % Base) ELSE (n \div Base) % Base),
            (IF n < 0 THEN 0 - ((0 - n) \div (Base * Base)) ELSE n \div (Base * Base))>>)

ZAdd(a, b) ==
    Strict(<<a, b>>,
        IF ZSign(a) * ZSign(b) >= 0
        THEN ZMake(ZSign(a) + ZSign(b), MAdd(ZAbs(a), ZAbs(b)))
        ELSE Only({ ZMake(IF larger THEN ZSign(a) ELSE ZSign(b),
                          MSub(IF larger THEN ZAbs(a) ELSE ZAbs(b),
                               IF larger THEN ZAbs(b) ELSE ZAbs(a)))
                    : larger \in {MCmp(ZAbs(a), ZAbs(b)) >= 0} }))

ZSub(a, b) == ZAdd(a, ZNeg(b))

\* -1, 0, 1 as a < b, a = b, a > b
ZCmp(a, b) ==
    Strict(<<a, b>>,
        IF ZSign(a) /= ZSign(b) THEN (IF ZSign(a) < ZSign(b) THEN -1 ELSE 1)
        ELSE ZSign(a) * MCmp(ZAbs(a), ZAbs(b)))

ZLt(a, b) == ZCmp(a, b) < 0

ZLe(a, b) == ZCmp(a, b) <= 0

ZMin(a, b) == IF ZLe(a, b) THEN a ELSE b

ZMax(a, b) == IF ZLe(a, b) THEN b ELSE a

ZMul(a, b) == Strict(<<a, b>>, ZMake(ZSign(a) * ZSign(b), MMul(ZAbs(a), ZAbs(b))))

\* a * k for a machine-size k, 0 <= k <= Base
ZScale(a, k) == Strict(a, ZMake(ZSign(a), MScale(ZAbs(a), k)))

\* a // k (floor) for a machine-size k, 0 < k <= 2^15: below zero it is
\* -ceil(|a| / k) = -floor((|a| + k - 1) / k)
ZFloorDiv(a, k) ==
    Strict(a,
        ZMake(ZSign(a), MQuot(MAdd(ZAbs(a), IF ZSign(a) < 0 THEN Z(k - 1) ELSE <<>>), k)))

\* s[1] + ... + s[Len(s)]
RECURSIVE ZSum(_)
ZSum(s) == Strict(s, IF s = <<>> THEN <<>> ELSE ZAdd(Head(s), ZSum(Tail(s))))

(***************************************************************************)
(* Python float                                                            *)
(***************************************************************************)
\* the bits moved in one step of a shift by k bits: at most 13, as 2^13 is
\* below Base
ShiftStep(k) == IF k < 13 THEN k ELSE 13

\* floor(m / 2^k)
RECURSIVE MShiftRight(_, _)
MShiftRight(m, k) ==
    Strict(m,
        IF k = 0 \/ m = <<>> THEN m
        ELSE MShiftRight(MQuot(m, 2^ShiftStep(k)), k - ShiftStep(k)))

\* m * 2^k
RECURSIVE MShiftLeft(_, _)
MShiftLeft(m, k) ==
    Strict(m,
        IF k = 0 \/ m = <<>> THEN m
        ELSE MShiftLeft(MScale(m, 2^ShiftStep(k)), k - ShiftStep(k)))

\* the number of bits of m
RECURSIVE BitLength(_)
BitLength(m) ==
    Strict(m,
        IF m = <<>> THEN 0
        ELSE IF Len(m) = 1 THEN Cardinality({n \in 0..13 : 2^n <= m[1]})
        ELSE 13 + BitLength(MQuot(m, 2^13)))

\* the number of bits of m above 53 (0 when m < 2^53)
ExcessBits(m) == Only({ IF n > 53 THEN n - 53 ELSE 0 : n \in {BitLength(m)} })

\* Round m * 2^e, with `sticky` saying that a non-zero part below m was
\* already dropped (then m >= 2^54), to 53 bits: nearest, ties to even.
\* With s bits too many, half is floor(m / 2^(s-1)): its last bit is the
\* first bit dropped, the bit before it the last bit kept.
FRound(neg, m, e, sticky) ==
    Strict(m,
        IF m = <<>> THEN [neg |-> FALSE, m |-> <<>>, e |-> 0]
        ELSE Only({
            IF s = 0 THEN [neg |-> neg, m |-> m, e |-> e]
            ELSE Only({ [neg |-> neg,
                         m   |-> MAdd(MQuot(half, 2),
                                      IF half[1] % 2 = 1
                                         /\ (sticky \/ half[1] % 4 = 3
                                                \/ MShiftLeft(half, s - 1) /= m)
                                      THEN <<1>> ELSE <<>>),
                         e   |-> e + s]
                        : half \in {MShiftRight(m, s - 1)} })
            : s \in {ExcessBits(m)} }))

\* float(n) of an int below 2^53 in magnitude
FInt(a) == Strict(a, [neg |-> ZSign(a) < 0, m |-> ZAbs(a), e |-> 0])

FMul(a, b) == Strict(<<a, b>>, FRound(a.neg /= b.neg, MMul(a.m, b.m), a.e + b.e, FALSE))

\* a / b, b not zero: the numerator is shifted by t bits, which gives the
\* quotient at least 55 bits
FDiv(a, b) ==
    Strict(<<a, b>>,
        IF a.m = <<>> THEN [neg |-> FALSE, m |-> <<>>, e |-> 0]
        ELSE Only({ Only({ FRound(a.neg /= b.neg, qs[1], a.e - b.e - t, qs[2])
                           : qs \in {MDivSticky(MShiftLeft(a.m, t), b.m)} })
                    : t \in {IF BitLength(b.m) + 55 <= BitLength(a.m) THEN 0
                             ELSE BitLength(b.m) + 55 - BitLength(a.m)} }))

FAdd(a, b) ==
    Strict(<<a, b>>,
        Only({ Only({ FRound(ZSign(v) < 0, ZAbs(v), e, FALSE)
                      : v \in {ZAdd(ZMake(IF a.neg THEN -1 ELSE 1, MShiftLeft(a.m, a.e - e)),
                                    ZMake(IF b.neg THEN -1 ELSE 1, MShiftLeft(b.m, b.e - e)))} })
               : e \in {IF a.e < b.e THEN a.e ELSE b.e} }))

FSub(a, b) == Strict(<<a, b>>, FAdd(a, [b EXCEPT !.neg = ~b.neg]))

\* int(x): truncation toward zero
FTrunc(a) ==
    Strict(a,
        ZMake(IF a.neg THEN -1 ELSE 1,
              MShiftRight(MShiftLeft(a.m, IF a.e > 0 THEN a.e ELSE 0),
                          IF a.e < 0 THEN 0 - a.e ELSE 0)))

\* a decimal literal p/q (0.10 is FLit(10, 100)): the float nearest to it
FLit(p, q) == FDiv(FInt(Z(p)), FInt(Z(q)))

(***************************************************************************)
(* Amounts in won.  Ages, years and head counts are machine-size numbers.  *)
(***************************************************************************)
\* k * 10,000 won
Man(k) == MTrim(<<0, k % Base, k \div Base>>)

\* k * 100,000,000 won, k < Base
EokTimes(k) == MTrim(<<0, 0, k>>)

(***************************************************************************)
(* models/asset.py                                                         *)
(***************************************************************************)
Asset_total(asset) ==
    ZSum(<<asset.real_estate, asset.financial, asset.securities, asset.cash,
           asset.insurance, asset.retirement, asset.trust, asset.other>>)

Asset_net_financial(asset) ==
    ZSum(<<asset.financial, asset.securities, asset.insurance>>)

is_minor(child) == child.age < 19

years_to_adult(child) == IF is_minor(child) THEN 19 - child.age ELSE 0

\* has_spouse that finds a spouse in every estate
has_spouse_always(heir) == TRUE

has_spouse(heir) == heir.spouse.exists

num_children(heir) == Len(heir.children)

num_elderly_children(heir) ==
    Cardinality({i \in DOMAIN heir.children : heir.children[i].age >= 65})

total_heirs(heir) ==
    num_children(heir) + heir.num_elderly_parents
        + (IF has_spouse(heir) THEN 1 ELSE 0)

has_generation_skip(heir) ==
    \E i \in DOMAIN heir.children : heir.children[i].is_grandchild

PriorGift_total(gift) ==
    ZSum(<<gift.to_heir_10yr, gift.to_others_5yr, gift.business_succession>>)

PriorGift_total_tax_paid(gift) ==
    ZSum(<<gift.to_heir_10yr_tax, gift.to_others_5yr_tax,
           gift.business_succession_tax>>)

total_inheritance(info) ==
    ZAdd(Asset_total(info.asset), PriorGift_total(info.prior_gift))

\* total_debt_deduction with the funeral expense taken as entered
total_debt_deduction_unfloored(info) ==
    LET funeral  == ZMin(info.deductions.funeral_expense, Man(1000))
        memorial == ZMin(info.deductions.funeral_memorial, Man(500))
        debt     == ZMin(info.deductions.debt, Asset_total(info.asset))
    IN  ZSum(<<info.deductions.public_charges, funeral, memorial, debt>>)

total_debt_deduction(info) ==
    LET funeral  == ZMax(Man(500), ZMin(info.deductions.funeral_expense, Man(1000)))
        memorial == ZMin(info.deductions.funeral_memorial, Man(500))
        debt     == ZMin(info.deductions.debt, Asset_total(info.asset))
    IN  ZSum(<<info.deductions.public_charges, funeral, memorial, debt>>)

\* net_inheritance without its max(0, value)
net_inheritance_unclamped(info) ==
    ZSub(ZAdd(Asset_total(info.asset), PriorGift_total(info.prior_gift)),
         total_debt_deduction(info))

net_inheritance(info) ==
    LET value == ZSub(ZAdd(Asset_total(info.asset), PriorGift_total(info.prior_gift)),
                      total_debt_deduction(info))
    IN  ZMax(Z(0), value)

(***************************************************************************)
(* Python dict[str, int]: a function on the keys it holds.  The keys stand *)
(* for the Korean ones of the source:                                      *)
(*   lump_sum 일괄공제, basic 기초공제, child 자녀공제, minor 미성년자공제,        *)
(*   elderly 연로자공제, disabled 장애인공제, spouse 배우자공제,                  *)
(*   financial 금융재산공제, co_residence 동거주택공제                          *)
(***************************************************************************)
EmptyDict == [k \in {} |-> <<>>]

DictSet(d, key, value) ==
    Strict(<<d, value>>,
        [k \in DOMAIN d \cup {key} |-> IF k = key THEN value ELSE d[k]])

DictUpdate(d, other) ==
    Strict(<<d, other>>,
        [k \in DOMAIN d \cup DOMAIN other |-> IF k \in DOMAIN other THEN other[k] ELSE d[k]])

RECURSIVE SumOver(_, _)
SumOver(d, keys) ==
    IF keys = {} THEN Z(0)
    ELSE LET k == CHOOSE x \in keys : TRUE
         IN  ZAdd(d[k], SumOver(d, keys \ {k}))

\* sum(d.values()) that misses the spouse's entry
DictSum_without_spouse(d) == SumOver(d, DOMAIN d \ {"spouse"})

\* sum(d.values())
DictSum(d) == SumOver(d, DOMAIN d)

(***************************************************************************)
(* calculator/deductions.py                                                *)
(***************************************************************************)
BASIC_DEDUCTION == Man(20000)

LUMP_SUM_DEDUCTION == Man(50000)

SPOUSE_MIN_DEDUCTION == Man(50000)

SPOUSE_MAX_DEDUCTION == EokTimes(30)

CHILD_DEDUCTION == Man(5000)

MINOR_DEDUCTION_PER_YEAR == Man(1000)

ELDERLY_DEDUCTION == Man(5000)

DISABLED_DEDUCTION_PER_YEAR == Man(1000)

FINANCIAL_FULL_THRESHOLD == Man(2000)

FINANCIAL_FIXED_THRESHOLD == Man(10000)

FINANCIAL_FIXED_DEDUCTION == Man(2000)

FINANCIAL_RATE == FLit(20, 100)

FINANCIAL_MAX_DEDUCTION == Man(20000)

CO_RESIDENCE_MAX_DEDUCTION == Man(60000)

CO_RESIDENCE_MIN_YEARS == 10

LUMP_SUM == "LUMP_SUM"

ITEMIZED == "ITEMIZED"

calculate_child_deduction(info) == ZScale(CHILD_DEDUCTION, num_children(info.heir))

RECURSIVE MinorTotal(_, _)
MinorTotal(children, i) ==
    IF i > Len(children) THEN Z(0)
    ELSE ZAdd(IF is_minor(children[i])
              THEN ZScale(MINOR_DEDUCTION_PER_YEAR, years_to_adult(children[i]))
              ELSE Z(0),
              MinorTotal(children, i + 1))

calculate_minor_deduction(info) == MinorTotal(info.heir.children, 1)

\* calculate_elderly_deduction that counts a spouse of 65 or more
calculate_elderly_deduction_with_spouse(info) ==
    ZScale(ELDERLY_DEDUCTION,
           num_elderly_children(info.heir) + info.heir.num_elderly_parents
               + (IF info.heir.spouse.exists /\ info.heir.spouse.age >= 65 THEN 1 ELSE 0))

calculate_elderly_deduction(info) ==
    ZScale(ELDERLY_DEDUCTION,
           num_elderly_children(info.heir) + info.heir.num_elderly_parents)

RECURSIVE DisabledTotal(_, _)
DisabledTotal(children, i) ==
    IF i > Len(children) THEN Z(0)
    ELSE ZAdd(IF children[i].is_disabled
              THEN ZScale(DISABLED_DEDUCTION_PER_YEAR, children[i].life_expectancy)
              ELSE Z(0),
              DisabledTotal(children, i + 1))

calculate_disabled_deduction(info) ==
    ZAdd(DisabledTotal(info.heir.children, 1),
         IF info.heir.spouse.exists /\ info.heir.spouse.is_disabled
         THEN ZScale(DISABLED_DEDUCTION_PER_YEAR, info.heir.spouse.life_expectancy)
         ELSE Z(0))

\* deductions[key] = value whatever the value
DictSetAlways(d, key, value) == DictSet(d, key, value)

\* deductions[key] = value if value > 0
DictSetPositive(d, key, value) ==
    Strict(<<d, value>>,
        IF ZLt(Z(0), value) THEN DictSet(d, key, value) ELSE d)

calculate_personal_deductions(info) ==
    LET d1 == DictSetPositive(EmptyDict, "child", calculate_child_deduction(info))
        d2 == DictSetPositive(d1, "minor", calculate_minor_deduction(info))
        d3 == DictSetPositive(d2, "elderly", calculate_elderly_deduction(info))
    IN  DictSetPositive(d3, "disabled", calculate_disabled_deduction(info))

\* the literal 1.5
SPOUSE_SHARE == FLit(15, 10)

\* a float
calculate_spouse_legal_share(info) ==
    IF ~has_spouse(info.heir) THEN FLit(0, 1)
    ELSE IF num_children(info.heir) = 0 THEN FLit(1, 1)
    ELSE LET total_ratio == FAdd(SPOUSE_SHARE, FInt(Z(num_children(info.heir))))
         IN  FDiv(SPOUSE_SHARE, total_ratio)

calculate_spouse_deduction(info, spouse_inheritance_amount) ==
    IF ~has_spouse(info.heir) THEN Z(0)
    ELSE Only({
        IF ZLe(taxable_value, Z(0)) THEN Z(0)
        ELSE LET legal_share_ratio == calculate_spouse_legal_share(info)
                 legal_share_amount == FTrunc(FMul(FInt(taxable_value), legal_share_ratio))
                 spouse_prior_gift == info.heir.spouse.prior_gift
                 legal_share_after_gift == ZSub(legal_share_amount, spouse_prior_gift)
                 deduction ==
                     IF ZLt(spouse_inheritance_amount, SPOUSE_MIN_DEDUCTION)
                     THEN SPOUSE_MIN_DEDUCTION
                     ELSE ZMin(ZMin(SPOUSE_MAX_DEDUCTION, ZMax(Z(0), legal_share_after_gift)),
                               spouse_inheritance_amount)
             IN  ZMin(deduction, taxable_value)
        : taxable_value \in {net_inheritance(info)} })

\* calculate_financial_deduction without the limit of FINANCIAL_MAX_DEDUCTION
calculate_financial_deduction_unlimited(info) ==
    Only({
        IF ZLt(net_financial, FINANCIAL_FULL_THRESHOLD) THEN net_financial
        ELSE IF ZLe(net_financial, FINANCIAL_FIXED_THRESHOLD) THEN FINANCIAL_FIXED_DEDUCTION
        ELSE FTrunc(FMul(FInt(net_financial), FINANCIAL_RATE))
        : net_financial \in {Asset_net_financial(info.asset)} })

calculate_financial_deduction(info) ==
    Only({
        IF ZLt(net_financial, FINANCIAL_FULL_THRESHOLD) THEN net_financial
        ELSE IF ZLe(net_financial, FINANCIAL_FIXED_THRESHOLD) THEN FINANCIAL_FIXED_DEDUCTION
        ELSE ZMin(FTrunc(FMul(FInt(net_financial), FINANCIAL_RATE)), FINANCIAL_MAX_DEDUCTION)
        : net_financial \in {Asset_net_financial(info.asset)} })

\* calculate_co_residence_deduction that does not ask whether the heir is homeless
calculate_co_residence_deduction_any_heir(info) ==
    LET co_res == info.co_residence IN
    IF ~co_res.eligible THEN Z(0)
    ELSE IF co_res.co_residence_years < CO_RESIDENCE_MIN_YEARS THEN Z(0)
    ELSE ZMin(co_res.house_value, CO_RESIDENCE_MAX_DEDUCTION)

calculate_co_residence_deduction(info) ==
    LET co_res == info.co_residence IN
    IF ~co_res.eligible THEN Z(0)
    ELSE IF co_res.co_residence_years < CO_RESIDENCE_MIN_YEARS THEN Z(0)
    ELSE IF ~co_res.heir_is_homeless THEN Z(0)
    ELSE ZMin(co_res.house_value, CO_RESIDENCE_MAX_DEDUCTION)

calculate_itemized_deductions(info) ==
    DictUpdate(DictSet(EmptyDict, "basic", BASIC_DEDUCTION),
               calculate_personal_deductions(info))

calculate_deductions(info, deduction_type, spouse_inheritance_amount) ==
    LET d1 == IF deduction_type = LUMP_SUM
              THEN DictSet(EmptyDict, "lump_sum", LUMP_SUM_DEDUCTION)
              ELSE DictUpdate(EmptyDict, calculate_itemized_deductions(info))
        d2 == IF has_spouse(info.heir) /\ ZLt(Z(0), spouse_inheritance_amount)
              THEN DictSetPositive(d1, "spouse",
                       calculate_spouse_deduction(info, spouse_inheritance_amount))
              ELSE d1
        d3 == DictSetPositive(d2, "financial", calculate_financial_deduction(info))
    IN  DictSetPositive(d3, "co_residence", calculate_co_residence_deduction(info))

(***************************************************************************)
(* calculator/inheritance_tax.py: the bracket table                        *)
(***************************************************************************)
\* float('inf'): a value no int has (a limb is below Base)
Infinity == <<Base>>

\* TAX_BRACKETS with 50,000,000 for the 60,000,000 of the third row
TAX_BRACKETS_third_row_off ==
    << <<EokTimes(1),  FLit(10, 100), Z(0)>>,
       <<EokTimes(5),  FLit(20, 100), Man(1000)>>,
       <<EokTimes(10), FLit(30, 100), Man(5000)>>,
       <<EokTimes(30), FLit(40, 100), Man(16000)>>,
       <<Infinity,     FLit(50, 100), Man(46000)>> >>

\* TAX_BRACKETS with 20,000,000 for the 10,000,000 of the second row
TAX_BRACKETS_second_row_low ==
    << <<EokTimes(1),  FLit(10, 100), Z(0)>>,
       <<EokTimes(5),  FLit(20, 100), Man(2000)>>,
       <<EokTimes(10), FLit(30, 100), Man(6000)>>,
       <<EokTimes(30), FLit(40, 100), Man(16000)>>,
       <<Infinity,     FLit(50, 100), Man(46000)>> >>

\* <<upper bound, rate, progressive deduction>>
TAX_BRACKETS ==
    << <<EokTimes(1),  FLit(10, 100), Z(0)>>,
       <<EokTimes(5),  FLit(20, 100), Man(1000)>>,
       <<EokTimes(10), FLit(30, 100), Man(6000)>>,
       <<EokTimes(30), FLit(40, 100), Man(16000)>>,
       <<Infinity,     FLit(50, 100), Man(46000)>> >>

\* taxable_amount <= bracket, where bracket may be float('inf')
LeBracket(amount, bracket) == bracket = Infinity \/ ZLe(amount, bracket)

\* BracketTax that rounds the product up before the subtraction
BracketTax_rounded_up(amount, bracket) ==
    Only({ Only({ ZSub(IF FSub(product, FInt(whole)).m = <<>> THEN whole
                       ELSE ZAdd(whole, Z(1)),
                       bracket[3])
                  : whole \in {FTrunc(product)} })
           : product \in {FMul(FInt(amount), bracket[2])} })

\* int(taxable_amount * rate - deduction)
BracketTax(amount, bracket) ==
    LET product == FMul(FInt(amount), bracket[2])
    IN  FTrunc(FSub(product, FInt(bracket[3])))

\* the loop over the rows of TAX_BRACKETS from the i-th on, and the return
\* after it
RECURSIVE TaxFromBracket(_, _, _)
TaxFromBracket(amount, brackets, i) ==
    IF i > Len(brackets) THEN BracketTax(amount, brackets[Len(brackets)])
    ELSE IF LeBracket(amount, brackets[i][1]) THEN BracketTax(amount, brackets[i])
    ELSE TaxFromBracket(amount, brackets, i + 1)

\* calculate_tax_amount without its early return
calculate_tax_amount_unguarded(amount) == TaxFromBracket(amount, TAX_BRACKETS, 1)

calculate_tax_amount(amount) ==
    IF ZLe(amount, Z(0)) THEN Z(0) ELSE TaxFromBracket(amount, TAX_BRACKETS, 1)

GENERATION_SKIP_SURCHARGE_RATE == FLit(30, 100)

GENERATION_SKIP_SURCHARGE_RATE_MINOR == FLit(40, 100)

GENERATION_SKIP_MINOR_THRESHOLD == EokTimes(20)

FILING_TAX_CREDIT_RATE == FLit(3, 100)

\* FallbackSkipAmount that adds one share for every grandchild
RECURSIVE FallbackSkipAmount_per_grandchild(_, _, _, _)
FallbackSkipAmount_per_grandchild(info, taxable_inheritance, i, skip_amount) ==
    IF i > Len(info.heir.children) THEN skip_amount
    ELSE FallbackSkipAmount_per_grandchild(info, taxable_inheritance, i + 1,
             IF info.heir.children[i].is_grandchild /\ info.heir.children[i].parent_alive
                /\ total_heirs(info.heir) > 0
             THEN ZAdd(skip_amount, ZFloorDiv(taxable_inheritance, total_heirs(info.heir)))
             ELSE skip_amount)

\* the loop over info.heir.children that sets skip_amount
RECURSIVE FallbackSkipAmount(_, _, _, _)
FallbackSkipAmount(info, taxable_inheritance, i, skip_amount) ==
    IF i > Len(info.heir.children) THEN skip_amount
    ELSE FallbackSkipAmount(info, taxable_inheritance, i + 1,
             IF info.heir.children[i].is_grandchild /\ info.heir.children[i].parent_alive
                /\ total_heirs(info.heir) > 0
             THEN ZFloorDiv(taxable_inheritance, total_heirs(info.heir))
             ELSE skip_amount)

\* calculate_generation_skip_surcharge that returns early for a taxable
\* inheritance of 0, and not for one below 0
calculate_generation_skip_surcharge_zero_only(base_tax, info, taxable_inheritance, grandchild_amount, grandchild_is_minor) ==
    IF ~has_generation_skip(info.heir) /\ grandchild_amount = Z(0) THEN Z(0)
    ELSE IF taxable_inheritance = Z(0) THEN Z(0)
    ELSE Only({
        IF skip_amount = Z(0) THEN Z(0)
        ELSE LET minor ==
                     grandchild_is_minor
                     \/ \E i \in DOMAIN info.heir.children :
                            /\ info.heir.children[i].is_grandchild
                            /\ is_minor(info.heir.children[i])
                 surcharge_rate ==
                     IF minor /\ ZLt(GENERATION_SKIP_MINOR_THRESHOLD, skip_amount)
                     THEN GENERATION_SKIP_SURCHARGE_RATE_MINOR
                     ELSE GENERATION_SKIP_SURCHARGE_RATE
                 ratio == FDiv(FInt(skip_amount), FInt(taxable_inheritance))
                 share == FMul(FInt(base_tax), ratio)
             IN  FTrunc(FMul(share, surcharge_rate))
        : skip_amount \in
              {IF grandchild_amount = Z(0)
               THEN FallbackSkipAmount(info, taxable_inheritance, 1, grandchild_amount)
               ELSE grandchild_amount} })

calculate_generation_skip_surcharge(base_tax, info, taxable_inheritance, grandchild_amount, grandchild_is_minor) ==
    IF ~has_generation_skip(info.heir) /\ grandchild_amount = Z(0) THEN Z(0)
    ELSE IF ZLe(taxable_inheritance, Z(0)) THEN Z(0)
    ELSE Only({
        IF skip_amount = Z(0) THEN Z(0)
        ELSE LET minor ==
                     grandchild_is_minor
                     \/ \E i \in DOMAIN info.heir.children :
                            /\ info.heir.children[i].is_grandchild
                            /\ is_minor(info.heir.children[i])
                 surcharge_rate ==
                     IF minor /\ ZLt(GENERATION_SKIP_MINOR_THRESHOLD, skip_amount)
                     THEN GENERATION_SKIP_SURCHARGE_RATE_MINOR
                     ELSE GENERATION_SKIP_SURCHARGE_RATE
                 ratio == FDiv(FInt(skip_amount), FInt(taxable_inheritance))
                 share == FMul(FInt(base_tax), ratio)
             IN  FTrunc(FMul(share, surcharge_rate))
        : skip_amount \in
              {IF grandchild_amount = Z(0)
               THEN FallbackSkipAmount(info, taxable_inheritance, 1, grandchild_amount)
               ELSE grandchild_amount} })

\* calculate_filing_credit granting the credit whether or not the return is
\* filed on time
calculate_filing_credit_always(calculated_tax, file_on_time) ==
    FTrunc(FMul(FInt(calculated_tax), FILING_TAX_CREDIT_RATE))

calculate_filing_credit(calculated_tax, file_on_time) ==
    IF file_on_time THEN FTrunc(FMul(FInt(calculated_tax), FILING_TAX_CREDIT_RATE))
    ELSE Z(0)

\* TaxableAmount without its floor of 0
TaxableAmount_unclamped(taxable_inheritance, total_deduction) ==
    ZSub(taxable_inheritance, total_deduction)

\* taxable_amount = taxable_inheritance - total_deduction, 0 if below 0
TaxableAmount(taxable_inheritance, total_deduction) ==
    Only({ IF ZLt(taxable_amount, Z(0)) THEN Z(0) ELSE taxable_amount
           : taxable_amount \in {ZSub(taxable_inheritance, total_deduction)} })

\* FinalTax with the credits added to the tax instead of taken from it
FinalTax_credits_added(tax_after_surcharge, filing_credit, prior_gift_tax_credit) ==
    ZAdd(ZAdd(tax_after_surcharge, filing_credit), prior_gift_tax_credit)

\* FinalTax without its floor of 0
FinalTax_unclamped(tax_after_surcharge, filing_credit, prior_gift_tax_credit) ==
    ZSub(ZSub(tax_after_surcharge, filing_credit), prior_gift_tax_credit)

\* final_tax = tax_after_surcharge - filing_credit - prior_gift_tax_credit, 0 if below 0
FinalTax(tax_after_surcharge, filing_credit, prior_gift_tax_credit) ==
    Only({ IF ZLt(final_tax, Z(0)) THEN Z(0) ELSE final_tax
           : final_tax \in {ZSub(ZSub(tax_after_surcharge, filing_credit),
                                 prior_gift_tax_credit)} })

\* returns a TaxResult
calculate_inheritance_tax(info, deduction_detail, grandchild_amount, grandchild_is_minor) ==
    Only({ Only({ Only({ Only({ Only({ Only({
        [total_inheritance     |-> total_inheritance(info),
         taxable_inheritance   |-> taxable_inheritance,
         total_deduction       |-> total_deduction,
         taxable_amount        |-> taxable_amount,
         calculated_tax        |-> calculated_tax,
         generation_surcharge  |-> generation_surcharge,
         filing_credit         |-> filing_credit,
         prior_gift_tax_credit |-> prior_gift_tax_credit,
         final_tax             |-> FinalTax(tax_after_surcharge, filing_credit,
                                            prior_gift_tax_credit),
         deduction_detail      |-> deduction_detail]
        \* the assignments of the function, the last one first
        : filing_credit \in
              {calculate_filing_credit(tax_after_surcharge, info.file_on_time)},
          prior_gift_tax_credit \in {PriorGift_total_tax_paid(info.prior_gift)} })
        : tax_after_surcharge \in {ZAdd(calculated_tax, generation_surcharge)} })
        : generation_surcharge \in
              {calculate_generation_skip_surcharge(calculated_tax, info, taxable_inheritance,
                                                   grandchild_amount, grandchild_is_minor)} })
        : calculated_tax \in {calculate_tax_amount(taxable_amount)} })
        : taxable_amount \in {TaxableAmount(taxable_inheritance, total_deduction)} })
        : taxable_inheritance \in {net_inheritance(info)},
          total_deduction \in {DictSum(deduction_detail)} })

(***************************************************************************)
(* calculator/cases.py.  A case is <<name, description, spouse amount,     *)
(* deduction type>>; a name "A: 법정상속분" is <<letter, label>>, what is      *)
(* before and after its ": ".                                              *)
(***************************************************************************)
calculate_spouse_legal_share_amount(info) ==
    IF ~has_spouse(info.heir) THEN Z(0)
    ELSE LET taxable_value == net_inheritance(info)
             ratio         == calculate_spouse_legal_share(info)
         IN  FTrunc(FMul(FInt(taxable_value), ratio))

\* the cases whose amount was not seen before, in order
RECURSIVE UniqueCases(_, _, _)
UniqueCases(cases, i, seen_amounts) ==
    IF i > Len(cases) THEN <<>>
    ELSE IF cases[i][3] \notin seen_amounts
         THEN <<cases[i]>> \o UniqueCases(cases, i + 1, seen_amounts \cup {cases[i][3]})
         ELSE UniqueCases(cases, i + 1, seen_amounts)

\* chr(ord('A') + i) for the i-th case, counted from 1 here
CaseLetter(i) == <<"A", "B", "C">>[i]

Relabel(cases) ==
    AsSeq([i \in 1..Len(cases) |->
              << <<CaseLetter(i), cases[i][1][2]>>, cases[i][2], cases[i][3], cases[i][4] >>],
          Len(cases))

generate_cases(info) ==
    Only({
        IF has_spouse(info.heir)
        THEN LET legal_share == calculate_spouse_legal_share_amount(info)
                 max_spouse  == ZMin(net_value, SPOUSE_MAX_DEDUCTION)
                 min_spouse  == ZMin(SPOUSE_MIN_DEDUCTION, net_value)
                 cases == << << <<"A", "legal share">>, "spouse legal share + lump sum",
                                legal_share, LUMP_SUM >>,
                             << <<"B", "spouse max">>, "maximise spouse (3 billion cap)",
                                max_spouse, LUMP_SUM >>,
                             << <<"C", "spouse min">>, "minimise spouse (500 million)",
                                min_spouse, LUMP_SUM >> >>
             IN  Relabel(UniqueCases(cases, 1, {}))
        ELSE << << <<"A", "lump sum">>, "lump sum deduction", Z(0), LUMP_SUM >>,
                << <<"B", "itemized">>, "basic deduction + personal deductions",
                   Z(0), ITEMIZED >> >>
        : net_value \in {ZMax(Z(0), net_inheritance(info))} })

\* the scan of min(): the best of results[i..], given the best before them
RECURSIVE MinByFinalTax(_, _, _)
MinByFinalTax(results, i, best) ==
    IF i > Len(results) THEN best
    ELSE MinByFinalTax(results, i + 1,
             IF ZLt(results[i].tax_result.final_tax, best.tax_result.final_tax)
             THEN results[i] ELSE best)

\* MaxFinalTax that stops at the first result
MaxFinalTax_first_only(results, i, best) == best

RECURSIVE MaxFinalTax(_, _, _)
MaxFinalTax(results, i, best) ==
    IF i > Len(results) THEN best
    ELSE MaxFinalTax(results, i + 1,
             IF ZLt(best, results[i].tax_result.final_tax)
             THEN results[i].tax_result.final_tax ELSE best)

RECURSIVE MinFinalTax(_, _, _)
MinFinalTax(results, i, best) ==
    IF i > Len(results) THEN best
    ELSE MinFinalTax(results, i + 1,
             IF ZLt(results[i].tax_result.final_tax, best)
             THEN results[i].tax_result.final_tax ELSE best)

\* min_by_final_tax that keeps the last of the results with the least final tax
min_by_final_tax_last(results) ==
    results[CHOOSE i \in 1..Len(results) :
                /\ \A j \in 1..Len(results) :
                       ZLe(results[i].tax_result.final_tax, results[j].tax_result.final_tax)
                /\ \A j \in (i + 1)..Len(results) :
                       results[j].tax_result.final_tax /= results[i].tax_result.final_tax]

\* min(results, key=lambda x: x.tax_result.final_tax)
min_by_final_tax(results) == MinByFinalTax(results, 2, results[1])

\* what Python raises on a division by zero
ZeroDivisionError == [error |-> "ZeroDivisionError"]

\* whether x is an exception rather than a value
Raised(x) == "error" \in DOMAIN x

\* spouse_inheritance_ratio without its condition on the net inheritance
spouse_inheritance_ratio_unguarded(info, spouse_amount) ==
    Only({ IF taxable_value = Z(0) THEN ZeroDivisionError
           ELSE FDiv(FInt(spouse_amount), FInt(taxable_value))
           : taxable_value \in {net_inheritance(info)} })

\* the spouse_inheritance_ratio argument compare_cases passes on:
\* spouse_amount / info.net_inheritance if info.net_inheritance > 0 else 0
spouse_inheritance_ratio(info, spouse_amount) ==
    Only({ IF ZLt(Z(0), taxable_value)
           THEN FDiv(FInt(spouse_amount), FInt(taxable_value))
           ELSE FInt(Z(0))
           : taxable_value \in {net_inheritance(info)} })

\* a CaseResult, or the exception raised on the way to it
EvaluateCase(info, case, grandchild_amount, grandchild_is_minor) ==
    LET deductions == calculate_deductions(info, case[4], case[3])
        tax_result == calculate_inheritance_tax(info, deductions,
                                                grandchild_amount, grandchild_is_minor)
    IN  Only({ IF Raised(ratio) THEN ratio
               ELSE [case_name          |-> case[1],
                     description        |-> case[2],
                     tax_result         |-> tax_result,
                     spouse_inheritance |-> case[3],
                     deduction_type     |-> case[4]]
               : ratio \in {spouse_inheritance_ratio(info, case[3])} })

\* the ComparisonResult of the results of the cases, or the exception one
\* of them raised
ComparisonResultOf(results) ==
    LET max_tax == MaxFinalTax(results, 2, results[1].tax_result.final_tax)
        min_tax == MinFinalTax(results, 2, results[1].tax_result.final_tax)
    IN  IF \E i \in 1..Len(results) : Raised(results[i])
        THEN ZeroDivisionError
        ELSE [cases        |-> results,
              optimal_case |-> min_by_final_tax(results),
              max_savings  |-> ZSub(max_tax, min_tax)]

\* returns a ComparisonResult, or the exception a case raised
compare_cases(info, grandchild_amount, grandchild_is_minor) ==
    Only({ Only({ ComparisonResultOf(results)
        : results \in {AsSeq([i \in 1..Len(cases) |->
                                 EvaluateCase(info, cases[i], grandchild_amount,
                                              grandchild_is_minor)], Len(cases))} })
        : cases \in {generate_cases(info)} })

(***************************************************************************)
(* The calls a client makes                                                *)
(***************************************************************************)
VARIABLES pc, estate, call, detail, result, comparison, tax,
          properties, collected, step, step_history, data, messages

\* st.session_state of the conversation
session == <<step, step_history, data, messages>>

vars == <<pc, estate, call, detail, result, comparison, tax,
          properties, collected, session>>

\* a variable no call has set
None == "None"

MaxChildren == 4

Spread == 5

\* ChildInfo(age=age, is_grandchild=is_grandchild)
Child(age, is_grandchild) ==
    [age |-> age, is_disabled |-> FALSE, life_expectancy |-> 0,
     is_grandchild |-> is_grandchild, parent_alive |-> TRUE]

\* SpouseInfo(exists=exists, prior_gift=prior_gift)
Spouse(exists, prior_gift) ==
    [exists |-> exists, age |-> 60, is_disabled |-> FALSE, life_expectancy |-> 0,
     prior_gift |-> prior_gift, prior_gift_tax |-> Z(0)]

\* Asset(real_estate=real_estate, financial=financial)
AssetOf(real_estate, financial) ==
    [real_estate |-> real_estate, financial |-> financial, securities |-> Z(0),
     cash |-> Z(0), insurance |-> Z(0), retirement |-> Z(0), trust |-> Z(0),
     other |-> Z(0)]

\* Deductions(public_charges, funeral_expense, funeral_memorial, debt)
DeductionsOf(public_charges, funeral_expense, funeral_memorial, debt) ==
    [public_charges |-> public_charges, funeral_expense |-> funeral_expense,
     funeral_memorial |-> funeral_memorial, debt |-> debt]

\* PriorGift(to_heir_10yr=to_heir_10yr, to_heir_10yr_tax=to_heir_10yr_tax)
PriorGiftOf(to_heir_10yr, to_heir_10yr_tax) ==
    [to_heir_10yr |-> to_heir_10yr, to_heir_10yr_tax |-> to_heir_10yr_tax,
     to_others_5yr |-> Z(0), to_others_5yr_tax |-> Z(0),
     business_succession |-> Z(0), business_succession_tax |-> Z(0)]

\* CoResidenceInfo()
NoCoResidence ==
    [eligible |-> FALSE, house_value |-> Z(0), co_residence_years |-> 0,
     heir_is_homeless |-> FALSE]

\* 7,616,082,061 won
OddEstate == ZAdd(ZAdd(EokTimes(76), Man(1608)), Z(2061))

AssetProfiles ==
    { AssetOf(EokTimes(4), Z(0)),
      AssetOf(EokTimes(10), EokTimes(5)),
      AssetOf(OddEstate, Z(0)) }

\* <<Deductions, PriorGift>>
LiabilityProfiles ==
    { <<DeductionsOf(Z(0), Z(0), Z(0), Z(0)), PriorGiftOf(Z(0), Z(0))>>,
      <<DeductionsOf(Man(300), Man(1500), Man(700), EokTimes(6)), PriorGiftOf(Z(0), Z(0))>>,
      <<DeductionsOf(Z(0), Z(0), Z(0), Z(0)), PriorGiftOf(EokTimes(1), EokTimes(3))>> }

SpouseProfiles ==
    { Spouse(FALSE, Z(0)), Spouse(TRUE, Z(0)), Spouse(TRUE, EokTimes(2)) }

\* up to MaxChildren adult children, or a minor grandchild and a child
ChildrenProfiles ==
    { [i \in 1..n |-> Child(30, FALSE)] : n \in 0..MaxChildren }
        \cup { <<Child(10, TRUE), Child(40, FALSE)>> }

Estates ==
    { [asset |-> a, heir |-> [spouse |-> s, children |-> c, num_elderly_parents |-> 0],
       deductions |-> l[1], prior_gift |-> l[2], co_residence |-> NoCoResidence,
       file_on_time |-> f] :
      a \in AssetProfiles, l \in LiabilityProfiles, s \in SpouseProfiles,
      c \in ChildrenProfiles, f \in BOOLEAN }

SpouseAmounts ==
    { Z(0), EokTimes(1), Z(499999999), EokTimes(5), EokTimes(30) }

\* <<grandchild_amount, grandchild_is_minor>>
GrandchildInputs ==
    { <<Z(0), FALSE>>, <<EokTimes(3), FALSE>>, <<EokTimes(25), TRUE>> }

Init ==
    /\ pc = "start"
    /\ estate \in Estates
    /\ call = None
    /\ detail = None
    /\ result = None
    /\ comparison = None
    /\ tax = None
    /\ properties = None
    /\ collected = None
    /\ step = None
    /\ step_history = None
    /\ data = None
    /\ messages = None

\* deductions.calculate_deductions(info, deduction_type, spouse_inheritance_amount)
CalculateDeductions(deduction_type, spouse_inheritance_amount) ==
    /\ pc = "start"
    /\ detail' =
           calculate_deductions(estate, deduction_type, spouse_inheritance_amount)
    /\ call' = [deduction_type |-> deduction_type,
                spouse_inheritance_amount |-> spouse_inheritance_amount]
    /\ pc' = "deducted"
    /\ UNCHANGED <<estate, result, comparison, tax, properties, collected, session>>

\* inheritance_tax.calculate_inheritance_tax(info, deduction_detail, ...)
CalculateInheritanceTax(grandchild_amount, grandchild_is_minor) ==
    /\ pc = "deducted"
    /\ result' = calculate_inheritance_tax(estate, detail,
                                               grandchild_amount, grandchild_is_minor)
    /\ call' = [grandchild_amount |-> grandchild_amount,
                grandchild_is_minor |-> grandchild_is_minor]
    /\ pc' = "taxed"
    /\ UNCHANGED <<estate, detail, comparison, tax, properties, collected, session>>

\* CompareCases with a compare_cases that marks the estate it was given as
\* filed late
CompareCases_consuming(grandchild_amount, grandchild_is_minor) ==
    /\ \/ pc = "start"
       \/ /\ pc = "compared"
          /\ grandchild_amount = call.grandchild_amount
          /\ grandchild_is_minor = call.grandchild_is_minor
    /\ comparison' = compare_cases(estate, grandchild_amount, grandchild_is_minor)
    /\ estate' = [estate EXCEPT !.file_on_time = FALSE]
    /\ call' = [grandchild_amount |-> grandchild_amount,
                grandchild_is_minor |-> grandchild_is_minor]
    /\ pc' = IF pc = "start" THEN "compared" ELSE "compared again"
    /\ UNCHANGED <<detail, result, tax, properties, collected, session>>

\* cases.compare_cases(info, grandchild_amount, grandchild_is_minor), called
\* on an estate for the first time, or once more with the same arguments
CompareCases(grandchild_amount, grandchild_is_minor) ==
    /\ \/ pc = "start"
       \/ /\ pc = "compared"
          /\ grandchild_amount = call.grandchild_amount
          /\ grandchild_is_minor = call.grandchild_is_minor
    /\ comparison' = compare_cases(estate, grandchild_amount, grandchild_is_minor)
    /\ call' = [grandchild_amount |-> grandchild_amount,
                grandchild_is_minor |-> grandchild_is_minor]
    /\ pc' = IF pc = "start" THEN "compared" ELSE "compared again"
    /\ UNCHANGED <<estate, detail, result, tax, properties, collected, session>>

Next ==
    \/ \E t \in {LUMP_SUM, ITEMIZED}, a \in SpouseAmounts : CalculateDeductions(t, a)
    \/ \E g \in GrandchildInputs : CalculateInheritanceTax(g[1], g[2])
    \/ \E g \in GrandchildInputs : CompareCases(g[1], g[2])

Spec == Init /\ [][Next]_vars

(***************************************************************************)
(* calculate_tax_amount alone, on amounts around every bracket bound       *)
(***************************************************************************)
TaxableAmounts ==
    { ZAdd(b, Z(d)) : b \in {Z(0), EokTimes(1), EokTimes(5), EokTimes(10), EokTimes(30)},
                      d \in (0 - Spread)..Spread }
        \cup { EokTimes(50), OddEstate, Z(123456789), ZNeg(EokTimes(1)) }

InitBracket ==
    /\ pc = "start"
    /\ call \in { [taxable_amount |-> a] : a \in TaxableAmounts }
    /\ estate = None
    /\ detail = None
    /\ result = None
    /\ comparison = None
    /\ tax = None
    /\ properties = None
    /\ collected = None
    /\ step = None
    /\ step_history = None
    /\ data = None
    /\ messages = None

\* inheritance_tax.calculate_tax_amount(taxable_amount)
CalculateTaxAmount ==
    /\ pc = "start"
    /\ tax' = calculate_tax_amount(call.taxable_amount)
    /\ pc' = "computed"
    /\ UNCHANGED <<estate, call, detail, result, comparison, properties, collected, session>>

\* a further call of calculate_tax_amount, by a caller that kept what the
\* call before returned
CalculateTaxAmountAgain(taxable_amount) ==
    /\ pc = "computed"
    /\ collected' = <<[taxable_amount |-> call.taxable_amount, tax |-> tax]>>
    /\ call' = [taxable_amount |-> taxable_amount]
    /\ tax' = calculate_tax_amount(taxable_amount)
    /\ pc' = "computed again"
    /\ UNCHANGED <<estate, detail, result, comparison, properties, session>>

NextBracket ==
    \/ CalculateTaxAmount
    \/ \E a \in TaxableAmounts : CalculateTaxAmountAgain(a)

SpecBracket == InitBracket /\ [][NextBracket]_vars

(***************************************************************************)
(* The properties of InheritanceInfo alone, on amounts around every limit  *)
(***************************************************************************)
PropertyEstates ==
    { [asset |-> a,
       heir |-> [spouse |-> Spouse(FALSE, Z(0)), children |-> <<>>,
                 num_elderly_parents |-> 0],
       deductions |-> DeductionsOf(p, f, m, d), prior_gift |-> PriorGiftOf(g, Z(0)),
       co_residence |-> NoCoResidence, file_on_time |-> TRUE] :
      a \in { AssetOf(Z(0), Z(0)), AssetOf(Man(100), Z(0)), AssetOf(EokTimes(4), Z(0)),
               AssetOf(EokTimes(10), EokTimes(5)) },
      p \in { Z(0), Man(300) },
      f \in { Z(0), Z(4999999), Man(500), Man(700), Man(1000), Z(10000001), Man(1500) },
      m \in { Z(0), Man(500), Z(5000001), Man(700) },
      d \in { Z(0), EokTimes(1), EokTimes(20) },
      g \in { Z(0), EokTimes(1) } }

InitEstate ==
    /\ pc = "start"
    /\ estate \in PropertyEstates
    /\ call = None
    /\ detail = None
    /\ result = None
    /\ comparison = None
    /\ tax = None
    /\ properties = None
    /\ collected = None
    /\ step = None
    /\ step_history = None
    /\ data = None
    /\ messages = None

\* info.total_inheritance, info.total_debt_deduction, info.net_inheritance
ReadProperties ==
    /\ pc = "start"
    /\ properties' = [total_inheritance    |-> total_inheritance(estate),
                      total_debt_deduction |-> total_debt_deduction(estate),
                      net_inheritance      |-> net_inheritance(estate)]
    /\ pc' = "read"
    /\ UNCHANGED <<estate, call, detail, result, comparison, tax, collected, session>>

NextEstate == ReadProperties

SpecEstate == InitEstate /\ [][NextEstate]_vars

(***************************************************************************)
(* calculate_deductions alone, on estates that vary one category at a time *)
(***************************************************************************)
\* no spouse, no children, no elderly parents
NoHeirs == [spouse |-> Spouse(FALSE, Z(0)), children |-> <<>>, num_elderly_parents |-> 0]

\* the estate of 1,000,000,000 won of real estate, without heirs and debts
PlainEstate ==
    [asset |-> AssetOf(EokTimes(10), Z(0)), heir |-> NoHeirs,
     deductions |-> DeductionsOf(Z(0), Z(0), Z(0), Z(0)),
     prior_gift |-> PriorGiftOf(Z(0), Z(0)), co_residence |-> NoCoResidence,
     file_on_time |-> TRUE]

\* Asset(real_estate=..., financial=f, securities=s, insurance=i, cash=c)
FinancialEstates ==
    { [PlainEstate EXCEPT !.asset.financial = f, !.asset.securities = s,
                          !.asset.insurance = i, !.asset.cash = c] :
      f \in { Z(0), Z(9999999), Z(19999999), Man(2000), Man(9000), EokTimes(1),
               Man(14000), Man(15000), Man(99000), EokTimes(20) },
      s \in {Z(0), Man(1000)}, i \in {Z(0), Z(1)}, c \in {Z(0), EokTimes(3)} }

\* CoResidenceInfo(eligible=e, house_value=v, co_residence_years=y, heir_is_homeless=h)
CoResidenceEstates ==
    { [PlainEstate EXCEPT !.co_residence =
           [eligible |-> e, house_value |-> v, co_residence_years |-> y,
            heir_is_homeless |-> h]] :
      e \in BOOLEAN, h \in BOOLEAN, y \in {0, 9, 10, 11, 30},
      v \in {Z(0), EokTimes(3), EokTimes(6), Z(600000001), EokTimes(10)} }

\* ChildInfo(age=age, is_disabled=True, life_expectancy=life_expectancy)
DisabledChild(age, life_expectancy) ==
    [Child(age, FALSE) EXCEPT !.is_disabled = TRUE, !.life_expectancy = life_expectancy]

FamilyChildren ==
    { <<>>,
      <<Child(30, FALSE)>>,
      <<Child(5, FALSE), Child(18, FALSE)>>,
      <<Child(19, FALSE), Child(65, FALSE)>>,
      <<DisabledChild(30, 40), DisabledChild(10, 60)>>,
      <<Child(70, FALSE), Child(64, FALSE), Child(0, TRUE)>> }

\* SpouseInfo(exists=True, age=age, is_disabled=is_disabled, life_expectancy=...)
FamilySpouses ==
    { Spouse(FALSE, Z(0)),
      Spouse(TRUE, Z(0)),
      [Spouse(TRUE, Z(0)) EXCEPT !.age = 70],
      [Spouse(TRUE, Z(0)) EXCEPT !.age = 70, !.is_disabled = TRUE, !.life_expectancy = 15] }

FamilyEstates ==
    { [PlainEstate EXCEPT !.heir = [spouse |-> s, children |-> c, num_elderly_parents |-> p]] :
      s \in FamilySpouses, c \in FamilyChildren, p \in 0..2 }

InitDeductions ==
    /\ pc = "start"
    /\ estate \in FinancialEstates \cup CoResidenceEstates \cup FamilyEstates
    /\ call = None
    /\ detail = None
    /\ result = None
    /\ comparison = None
    /\ tax = None
    /\ properties = None
    /\ collected = None
    /\ step = None
    /\ step_history = None
    /\ data = None
    /\ messages = None

NextDeductions ==
    \E t \in {LUMP_SUM, ITEMIZED}, a \in {Z(0), EokTimes(1), EokTimes(7)} :
        CalculateDeductions(t, a)

SpecDeductions == InitDeductions /\ [][NextDeductions]_vars

(***************************************************************************)
(* calculate_generation_skip_surcharge alone                               *)
(***************************************************************************)
\* ChildInfo(age=age, is_grandchild=True, parent_alive=False)
Orphan(age) == [Child(age, TRUE) EXCEPT !.parent_alive = FALSE]

SurchargeChildren ==
    { <<Child(30, FALSE)>>,
      <<Child(10, TRUE)>>,
      <<Child(10, TRUE), Child(40, FALSE)>>,
      <<Child(30, TRUE), Child(40, FALSE), Child(41, FALSE)>>,
      <<Child(30, TRUE), Child(12, TRUE), Child(40, FALSE)>>,
      <<Orphan(30), Child(40, FALSE)>> }

SurchargeEstates ==
    { [PlainEstate EXCEPT !.heir = [spouse |-> Spouse(s, Z(0)), children |-> c,
                                    num_elderly_parents |-> p]] :
      s \in BOOLEAN, c \in SurchargeChildren, p \in 0..1 }

InitSurcharge ==
    /\ pc = "start"
    /\ estate \in SurchargeEstates
    /\ call = None
    /\ detail = None
    /\ result = None
    /\ comparison = None
    /\ tax = None
    /\ properties = None
    /\ collected = None
    /\ step = None
    /\ step_history = None
    /\ data = None
    /\ messages = None

\* inheritance_tax.calculate_generation_skip_surcharge(base_tax, info, ...)
CalculateGenerationSkipSurcharge(base_tax, taxable_inheritance, grandchild_amount, grandchild_is_minor) ==
    /\ pc = "start"
    /\ tax' = calculate_generation_skip_surcharge(base_tax, estate, taxable_inheritance,
                                                  grandchild_amount, grandchild_is_minor)
    /\ call' = [base_tax |-> base_tax, taxable_inheritance |-> taxable_inheritance,
                grandchild_amount |-> grandchild_amount,
                grandchild_is_minor |-> grandchild_is_minor]
    /\ pc' = "surcharged"
    /\ UNCHANGED <<estate, detail, result, comparison, properties, collected, session>>

NextSurcharge ==
    \E b \in { Z(0), Man(1000), Z(1787500000) },
       t \in { ZNeg(EokTimes(1)), Z(0), Z(1), ZSub(EokTimes(50), Man(500)), EokTimes(70),
               EokTimes(100) },
       g \in { <<Z(0), FALSE>>, <<Z(0), TRUE>>, <<EokTimes(3), FALSE>>,
               <<EokTimes(20), TRUE>>, <<Z(2000000001), TRUE>>, <<EokTimes(25), TRUE>>,
               <<EokTimes(25), FALSE>> } :
        CalculateGenerationSkipSurcharge(b, t, g[1], g[2])

SpecSurcharge == InitSurcharge /\ [][NextSurcharge]_vars

(***************************************************************************)
(* The loop of compare_cases with its passes run in any order: each pass   *)
(* evaluates one generated case, and the results are put in the order of   *)
(* generation before the comparison is made                                *)
(***************************************************************************)
InitAnyOrder ==
    /\ pc = "evaluating"
    /\ estate \in { info \in Estates : info.file_on_time /\ Len(info.heir.children) = 2 }
    /\ call \in { [grandchild_amount |-> g[1], grandchild_is_minor |-> g[2]] :
                  g \in GrandchildInputs }
    /\ collected = <<>>
    /\ detail = None
    /\ result = None
    /\ comparison = None
    /\ tax = None
    /\ properties = None
    /\ step = None
    /\ step_history = None
    /\ data = None
    /\ messages = None

\* one pass of the loop, for the i-th generated case
EvaluateScenario(i) ==
    /\ pc = "evaluating"
    /\ \A k \in 1..Len(collected) : collected[k].index /= i
    /\ i \in 1..Len(generate_cases(estate))
    /\ collected' = Append(collected,
           [index |-> i,
            case_result |-> EvaluateCase(estate, generate_cases(estate)[i],
                                         call.grandchild_amount,
                                         call.grandchild_is_minor)])
    /\ UNCHANGED <<pc, estate, call, detail, result, comparison, tax, properties, session>>

\* the results in the order they were completed in
AsCompleted(done) == AsSeq([k \in 1..Len(done) |-> done[k].case_result], Len(done))

\* the results in the order of generation
ByIndex(done) ==
    AsSeq([i \in 1..Len(done) |->
              done[CHOOSE k \in 1..Len(done) : done[k].index = i].case_result],
          Len(done))

\* what compare_cases does after its loop
CollectResults ==
    /\ pc = "evaluating"
    /\ Len(collected) = Len(generate_cases(estate))
    /\ comparison' = ComparisonResultOf(ByIndex(collected))
    /\ pc' = "collected"
    /\ UNCHANGED <<estate, call, detail, result, tax, properties, collected, session>>

NextAnyOrder ==
    \/ \E i \in 1..3 : EvaluateScenario(i)
    \/ CollectResults

SpecAnyOrder == InitAnyOrder /\ [][NextAnyOrder]_vars

(***************************************************************************)
(* app.py: the conversation.  step counts the entries of STEPS from 0;     *)
(* data keeps num_children, the one answer the steps read back; a message  *)
(* is the step it is tagged with.  What the parsers make of the user's     *)
(* text is an answer: whether an amount, age or count was recognised,      *)
(* whether the text says yes (at the step confirm: whether it asks for a   *)
(* change), and how many children or ages it names.                        *)
(***************************************************************************)
STEPS ==
    <<"assets", "real_estate_debt", "spouse", "spouse_detail", "children",
      "children_detail", "grandchild", "grandchild_detail", "funeral_costs",
      "other_debts", "prior_gift", "prior_gift_detail", "co_residence", "confirm",
      "result">>

\* STEPS.index(name)
StepIndex(name) == (CHOOSE i \in 1..Len(STEPS) : STEPS[i] = name) - 1

\* the longest step_history an input is still accepted with
MaxHistory == 8

\* the most children or ages an answer names
MaxCount == 2

\* process_input asks again and returns early: no count of children was
\* found, or fewer ages than children were given
AsksAgain(name, answer, known_children) ==
    \/ name = "children" /\ answer.yes /\ ~answer.recognised /\ answer.count = 0
    \/ /\ name = "children_detail"
       /\ ~(answer.count = 1 /\ known_children > 1)
       /\ answer.count < known_children

\* next_step at the end of process_input
next_step(current, answer) ==
    LET name == STEPS[current + 1]
    IN  CASE name = "assets" ->
                 IF ~answer.recognised THEN current
                 ELSE IF answer.yes THEN StepIndex("real_estate_debt")
                 ELSE StepIndex("spouse")
          [] name = "real_estate_debt" -> StepIndex("spouse")
          [] name = "spouse" ->
                 IF answer.yes THEN StepIndex("spouse_detail") ELSE StepIndex("children")
          [] name = "children" ->
                 IF ~answer.yes \/ answer.count = 0 THEN StepIndex("funeral_costs")
                 ELSE StepIndex("children_detail")
          [] name = "children_detail" -> StepIndex("grandchild")
          [] name = "grandchild" ->
                 IF answer.yes THEN StepIndex("grandchild_detail")
                 ELSE StepIndex("funeral_costs")
          [] name = "grandchild_detail" ->
                 IF answer.recognised THEN StepIndex("funeral_costs") ELSE current
          [] name = "funeral_costs" -> StepIndex("other_debts")
          [] name = "other_debts" -> StepIndex("prior_gift")
          [] name = "prior_gift" ->
                 IF answer.yes THEN StepIndex("prior_gift_detail")
                 ELSE StepIndex("co_residence")
          [] name = "prior_gift_detail" ->
                 IF answer.recognised \/ ~answer.yes THEN StepIndex("co_residence")
                 ELSE current
          [] name = "confirm" -> StepIndex("result")
          [] OTHER -> current + 1

InitSession ==
    /\ pc = "conversing"
    /\ step = 0
    /\ data = EmptyDict
    /\ messages = <<0>>
    /\ step_history = <<>>
    /\ estate = None
    /\ call = None
    /\ detail = None
    /\ result = None
    /\ comparison = None
    /\ tax = None
    /\ properties = None
    /\ collected = None

\* process_input(user_input), main() offering no input at the step result
ProcessInput(answer) ==
    /\ pc = "conversing"
    /\ step < StepIndex("result")
    /\ Len(step_history) < MaxHistory
    /\ LET name == STEPS[step + 1]
           known_children ==
               IF "num_children" \in DOMAIN data THEN data["num_children"] ELSE 0
           asked == Append(Append(messages, step), step)
       IN  IF name = "confirm" /\ answer.yes
           THEN /\ step' = 0
                /\ data' = EmptyDict
                /\ messages' = <<0>>
                /\ UNCHANGED step_history
           ELSE IF AsksAgain(name, answer, known_children)
           THEN /\ messages' = asked
                /\ step_history' = Append(step_history, step)
                /\ UNCHANGED <<step, data>>
           ELSE /\ data' =
                       IF name = "children"
                       THEN DictSet(data, "num_children",
                                    IF ~answer.yes \/ answer.count = 0 THEN 0
                                    ELSE answer.count)
                       ELSE IF name = "children_detail"
                       THEN DictSet(data, "num_children", known_children)
                       ELSE data
                /\ step_history' = Append(step_history, step)
                /\ step' = next_step(step, answer)
                /\ messages' =
                       IF next_step(step, answer) < Len(STEPS) - 1
                       THEN Append(asked, next_step(step, answer))
                       ELSE asked
    /\ UNCHANGED <<pc, estate, call, detail, result, comparison, tax, properties, collected>>

\* jump_to_step(target_step, clear_data=False), the history being what
\* go_back left of it
jump_to_step(target_step, history) ==
    LET Before(s) == s < target_step
    IN  /\ messages' = Append(SelectSeq(messages, Before), target_step)
        /\ step_history' = SelectSeq(history, Before)
        /\ step' = target_step
        /\ UNCHANGED data

\* go_back()
GoBack ==
    /\ pc = "conversing"
    /\ IF step_history /= <<>>
       THEN jump_to_step(step_history[Len(step_history)],
                         SubSeq(step_history, 1, Len(step_history) - 1))
       ELSE UNCHANGED session
    /\ UNCHANGED <<pc, estate, call, detail, result, comparison, tax, properties, collected>>

NextSession ==
    \/ \E answer \in [recognised : BOOLEAN, yes : BOOLEAN, count : 0..MaxCount] :
           ProcessInput(answer)
    \/ GoBack

SpecSession == InitSession /\ [][NextSession]_vars

(***************************************************************************)
(* Properties                                                              *)
(***************************************************************************)
\* floor(a * p / q) in exact integer arithmetic, a >= 0
ExactShare(a, p, q) == ZFloorDiv(ZScale(a, p), q)

\* the final tax of the i-th scenario of the comparison
ScenarioTax(i) == comparison.cases[i].tax_result.final_tax

\* C1: compare_cases returns a non-empty list of scenarios; the optimal one is
\* a member of the list, no scenario has a lower final tax, and every
\* scenario generated before it has a higher one (ties go to the first).
C1_OptimalIsFirstMinimum ==
    pc = "compared" =>
        /\ Len(comparison.cases) >= 1
        /\ Len(comparison.cases) = Len(generate_cases(estate))
        /\ \E i \in 1..Len(comparison.cases) :
               /\ comparison.optimal_case = comparison.cases[i]
               /\ \A j \in 1..Len(comparison.cases) : ZLe(ScenarioTax(i), ScenarioTax(j))
               /\ \A j \in 1..(i - 1) : ZLt(ScenarioTax(i), ScenarioTax(j))

\* C1: two scenarios tie at the least final tax, a third is dearer, and the
\* first of the two was chosen
C1_TieGoesToFirst ==
    /\ pc = "compared"
    /\ Len(comparison.cases) = 3
    /\ \E i \in 1..2 :
           /\ comparison.optimal_case = comparison.cases[i]
           /\ \E j \in (i + 1)..3 : ScenarioTax(j) = ScenarioTax(i)
           /\ \E j \in 1..3 : ZLt(ScenarioTax(i), ScenarioTax(j))

\* the spousal deduction that calculate_deductions reported: 0 when the
\* mapping has no entry for it
ReportedSpouseDeduction == IF "spouse" \in DOMAIN detail THEN detail["spouse"] ELSE Z(0)

\* C2: with a spouse and a spouse allocation in [0, 499,999,999], the
\* spousal deduction reported by calculate_deductions is exactly 500,000,000.
C2_SpouseFloor ==
    (/\ pc = "deducted"
     /\ estate.heir.spouse.exists
     /\ ZLe(Z(0), call.spouse_inheritance_amount)
     /\ ZLe(call.spouse_inheritance_amount, Z(499999999)))
        => ReportedSpouseDeduction = EokTimes(5)

\* netInheritance x ratio, floored: ratio is 1 without children and
\* 1.5 / (1.5 + n) = 3 / (3 + 2n) with n of them
C3LegalShare ==
    IF Len(estate.heir.children) = 0 THEN net_inheritance(estate)
    ELSE ExactShare(net_inheritance(estate), 3, 3 + 2 * Len(estate.heir.children))

\* C3: with a spouse and a spouse allocation of 500,000,000 or more, the
\* spousal deduction is min(3,000,000,000, max(0, floor(netInheritance x
\* ratio) - spouse.priorGift), spouseAllocation, netInheritance), hence at
\* most min(3,000,000,000, netInheritance).
C3_SpouseCeiling ==
    (/\ pc = "deducted"
     /\ estate.heir.spouse.exists
     /\ ZLe(EokTimes(5), call.spouse_inheritance_amount))
        => /\ ReportedSpouseDeduction =
                  ZMin(ZMin(ZMin(EokTimes(30),
                                 ZMax(Z(0), ZSub(C3LegalShare,
                                                 estate.heir.spouse.prior_gift))),
                            call.spouse_inheritance_amount),
                       net_inheritance(estate))
           /\ ZLe(ReportedSpouseDeduction, ZMin(EokTimes(30), net_inheritance(estate)))

\* the rows of claim C4: <<upper bound, rate in percent, cumulative subtraction>>
C4Rows ==
    << <<EokTimes(1), 10, Z(0)>>, <<EokTimes(5), 20, Man(1000)>>,
       <<EokTimes(10), 30, Man(6000)>>, <<EokTimes(30), 40, Man(16000)>> >>

\* the first row whose upper bound is not below the amount; the row above all
C4Row(amount) ==
    IF \E i \in 1..4 : ZLe(amount, C4Rows[i][1])
    THEN C4Rows[CHOOSE i \in 1..4 : /\ ZLe(amount, C4Rows[i][1])
                                    /\ \A j \in 1..(i - 1) : ZLt(C4Rows[j][1], amount)]
    ELSE <<Infinity, 50, Man(46000)>>

\* C4: for a taxable amount above 0, calculate_tax_amount returns
\* floor(amount x rate) - cumulative subtraction of the first row whose upper
\* bound is at least the amount: truncated, never rounded.
C4_BracketFormula ==
    (pc = "computed" /\ ZLt(Z(0), call.taxable_amount))
        => tax = ZSub(ExactShare(call.taxable_amount, C4Row(call.taxable_amount)[2], 100),
                      C4Row(call.taxable_amount)[3])

\* C4: 100,000,001 x 20% = 20,000,000.2 was truncated
C4_Truncated ==
    /\ pc = "computed"
    /\ call.taxable_amount = ZAdd(EokTimes(1), Z(1))
    /\ tax = Man(1000)

\* the tax at each bound of the table, and at 5,000,000,000
C5Expected ==
    << <<EokTimes(1), Man(1000)>>, <<EokTimes(5), Man(9000)>>,
       <<EokTimes(10), Man(24000)>>, <<EokTimes(30), Man(104000)>> >>

\* C5: at 100,000,000, 500,000,000, 1,000,000,000 and 3,000,000,000 the
\* formula of the row below and the formula of the row above give the same
\* tax, calculate_tax_amount returns 10,000,000, 90,000,000, 240,000,000 and
\* 1,040,000,000 there, and 2,040,000,000 at 5,000,000,000.
C5_Continuity ==
    pc = "computed" =>
        /\ \A i \in 1..4 :
               call.taxable_amount = C5Expected[i][1] =>
                   /\ TAX_BRACKETS[i][1] = C5Expected[i][1]
                   /\ tax = C5Expected[i][2]
                   /\ BracketTax(call.taxable_amount, TAX_BRACKETS[i]) = tax
                   /\ BracketTax(call.taxable_amount, TAX_BRACKETS[i + 1]) = tax
        /\ call.taxable_amount = EokTimes(50) => tax = Man(204000)

\* C5: the tax at the bound 1,000,000,000 was computed
C5_AtThirdBound ==
    /\ pc = "computed"
    /\ call.taxable_amount = EokTimes(10)
    /\ tax = Man(24000)

\* C6: for a taxable amount of 0 or below, calculate_tax_amount returns 0
\* (it returns: the call has no failing path).
C6_NoTaxAtOrBelowZero ==
    (pc = "computed" /\ ZLe(call.taxable_amount, Z(0))) => tax = Z(0)

\* C6: a negative amount was taxed 0
C6_NegativeAmount ==
    /\ pc = "computed"
    /\ ZLt(call.taxable_amount, Z(0))
    /\ tax = Z(0)

\* calculatedTax + generationSurcharge - filingCredit - priorGiftTaxCredit
C7Balance ==
    ZSub(ZSub(ZAdd(result.calculated_tax, result.generation_surcharge),
              result.filing_credit),
         result.prior_gift_tax_credit)

\* C7: finalTax = max(0, calculatedTax + generationSurcharge - filingCredit
\* - priorGiftTaxCredit), where priorGiftTaxCredit is the whole gift tax
\* paid; finalTax is never negative.
C7_FinalTax ==
    pc = "taxed" =>
        /\ result.prior_gift_tax_credit =
               ZAdd(ZAdd(estate.prior_gift.to_heir_10yr_tax,
                         estate.prior_gift.to_others_5yr_tax),
                    estate.prior_gift.business_succession_tax)
        /\ result.final_tax = ZMax(Z(0), C7Balance)
        /\ ZLe(Z(0), result.final_tax)

\* C7: the gift tax paid exceeds a positive tax due, and the final tax is 0
C7_CreditExceedsTax ==
    /\ pc = "taxed"
    /\ ZLt(Z(0), result.calculated_tax)
    /\ ZLt(C7Balance, Z(0))
    /\ result.final_tax = Z(0)

\* the keys a deduction mapping can hold
DeductionKeys ==
    <<"lump_sum", "basic", "child", "minor", "elderly", "disabled", "spouse",
      "financial", "co_residence">>

\* the sum of the entries of the mapping passed to calculate_inheritance_tax
C8EntrySum ==
    ZSum([i \in 1..Len(DeductionKeys) |->
             IF DeductionKeys[i] \in DOMAIN detail THEN detail[DeductionKeys[i]] ELSE Z(0)])

\* C8: totalDeduction is the sum of the entries of the mapping passed in,
\* taxableInheritance is netInheritance, taxableAmount is max(0,
\* taxableInheritance - totalDeduction) and calculatedTax is
\* calculate_tax_amount(taxableAmount).
C8_TaxResultFields ==
    pc = "taxed" =>
        /\ DOMAIN detail \subseteq {DeductionKeys[i] : i \in 1..Len(DeductionKeys)}
        /\ result.deduction_detail = detail
        /\ result.total_deduction = C8EntrySum
        /\ result.taxable_inheritance = net_inheritance(estate)
        /\ result.taxable_amount =
               ZMax(Z(0), ZSub(result.taxable_inheritance, result.total_deduction))
        /\ ZLe(Z(0), result.taxable_amount)
        /\ result.calculated_tax = calculate_tax_amount(result.taxable_amount)

\* C8: the deductions exceed a positive net inheritance, and the taxable
\* amount is 0
C8_DeductionsExceedNet ==
    /\ pc = "taxed"
    /\ ZLt(Z(0), result.taxable_inheritance)
    /\ ZLt(result.taxable_inheritance, result.total_deduction)
    /\ result.taxable_amount = Z(0)

\* clamp(x, floor, ceiling)
Clamp(x, floor, ceiling) ==
    IF ZLt(x, floor) THEN floor ELSE IF ZLt(ceiling, x) THEN ceiling ELSE x

\* C9: totalDebtDeduction = publicCharges + clamp(funeralExpense, 5,000,000,
\* 10,000,000) + min(funeralMemorial, 5,000,000) + min(debt, Asset.total);
\* with no funeral expense the funeral part is exactly 5,000,000, and debt
\* above the total assets is not deducted.
C9_TotalDebtDeduction ==
    pc = "read" =>
        LET d      == estate.deductions
            assets == Asset_total(estate.asset)
            others == ZAdd(ZAdd(d.public_charges, ZMin(d.funeral_memorial, Man(500))),
                           ZMin(d.debt, assets))
        IN  /\ properties.total_debt_deduction =
                   ZAdd(ZAdd(ZAdd(d.public_charges,
                                  Clamp(d.funeral_expense, Man(500), Man(1000))),
                             ZMin(d.funeral_memorial, Man(500))),
                        ZMin(d.debt, assets))
            /\ d.funeral_expense = Z(0) =>
                   ZSub(properties.total_debt_deduction, others) = Man(500)
            /\ ZLt(assets, d.debt) =>
                   ZLe(properties.total_debt_deduction,
                       ZAdd(ZAdd(ZAdd(d.public_charges, Man(1000)), Man(500)), assets))

\* C9: no funeral expense and debt above the assets: 5,000,000 and the
\* assets are what is deducted
C9_FloorAndDebtCap ==
    /\ pc = "read"
    /\ estate.deductions.funeral_expense = Z(0)
    /\ estate.deductions.funeral_memorial = Z(0)
    /\ estate.deductions.public_charges = Z(0)
    /\ estate.asset = AssetOf(EokTimes(4), Z(0))
    /\ estate.deductions.debt = EokTimes(20)
    /\ properties.total_debt_deduction = ZAdd(Man(500), EokTimes(4))

\* C10: totalInheritance = Asset.total + PriorGift.total, netInheritance =
\* max(0, totalInheritance - totalDebtDeduction), and netInheritance is
\* never negative.
C10_NetInheritance ==
    pc = "read" =>
        LET assets == Asset_total(estate.asset)
            gifts  == ZAdd(ZAdd(estate.prior_gift.to_heir_10yr,
                                estate.prior_gift.to_others_5yr),
                           estate.prior_gift.business_succession)
            rest   == ZSub(properties.total_inheritance, properties.total_debt_deduction)
        IN  /\ properties.total_inheritance = ZAdd(assets, gifts)
            /\ properties.net_inheritance = (IF ZLt(rest, Z(0)) THEN Z(0) ELSE rest)
            /\ ZLe(Z(0), properties.net_inheritance)

\* C10: the public charges and the funeral floor exceed the estate, and the
\* net inheritance is 0
C10_ChargesExceedEstate ==
    /\ pc = "read"
    /\ estate.deductions.debt = Z(0)
    /\ estate.deductions.funeral_expense = Z(0)
    /\ estate.deductions.funeral_memorial = Z(0)
    /\ ZLt(properties.total_inheritance,
           ZAdd(estate.deductions.public_charges, Man(500)))
    /\ ZLt(Z(0), properties.total_inheritance)
    /\ properties.net_inheritance = Z(0)

\* the candidate allocations of claim C11, in their order
C11Candidates ==
    <<C3LegalShare, ZMin(net_inheritance(estate), EokTimes(30)),
      ZMin(EokTimes(5), net_inheritance(estate))>>

\* the name suffix and the description of each candidate
C11Texts ==
    << <<"legal share", "spouse legal share + lump sum">>,
       <<"spouse max", "maximise spouse (3 billion cap)">>,
       <<"spouse min", "minimise spouse (500 million)">> >>

\* the candidates whose allocation no earlier candidate has
C11Kept == {i \in 1..3 : \A j \in 1..(i - 1) : C11Candidates[j] /= C11Candidates[i]}

\* the k-th of them
C11KeptIndex(k) == CHOOSE i \in C11Kept : Cardinality({j \in C11Kept : j <= i}) = k

\* C11: with a spouse, the scenarios are the candidates floor(netInheritance
\* x legalRatio), min(netInheritance, 3,000,000,000) and min(500,000,000,
\* netInheritance), in that order and all in LUMP_SUM mode, without those
\* whose allocation an earlier candidate has (so the allocations are
\* pairwise distinct and 1 to 3 scenarios remain), labelled A, B, C in
\* order, each with the name suffix and the description of its candidate.
C11_SpouseScenarios ==
    (pc = "compared" /\ estate.heir.spouse.exists) =>
        /\ Len(comparison.cases) = Cardinality(C11Kept)
        /\ Len(comparison.cases) \in 1..3
        /\ \A k \in 1..Len(comparison.cases) :
               /\ comparison.cases[k].case_name =
                      <<CaseLetter(k), C11Texts[C11KeptIndex(k)][1]>>
               /\ comparison.cases[k].description = C11Texts[C11KeptIndex(k)][2]
               /\ comparison.cases[k].spouse_inheritance = C11Candidates[C11KeptIndex(k)]
               /\ comparison.cases[k].deduction_type = LUMP_SUM
               /\ \A j \in 1..(k - 1) :
                      comparison.cases[j].spouse_inheritance
                          /= comparison.cases[k].spouse_inheritance

\* C12: without a spouse, the scenarios are exactly two, in this order:
\* lump sum (mode LUMP_SUM, allocation 0) and itemized (mode ITEMIZED,
\* allocation 0), and the deduction mapping of neither has a spousal entry.
C12_NoSpouseScenarios ==
    (pc = "compared" /\ ~estate.heir.spouse.exists) =>
        /\ Len(comparison.cases) = 2
        /\ comparison.cases[1].case_name = <<"A", "lump sum">>
        /\ comparison.cases[1].deduction_type = LUMP_SUM
        /\ comparison.cases[1].spouse_inheritance = Z(0)
        /\ comparison.cases[2].case_name = <<"B", "itemized">>
        /\ comparison.cases[2].deduction_type = ITEMIZED
        /\ comparison.cases[2].spouse_inheritance = Z(0)
        /\ \A i \in 1..2 :
               /\ "spouse" \notin DOMAIN comparison.cases[i].tax_result.deduction_detail
               /\ comparison.cases[i].tax_result.deduction_detail =
                      calculate_deductions(estate, comparison.cases[i].deduction_type, Z(0))

\* C12: an estate without a spouse was compared, its first scenario under
\* the lump sum and its second under the basic and the child deductions
C12_TwoModesCompared ==
    /\ pc = "compared"
    /\ ~estate.heir.spouse.exists
    /\ Len(comparison.cases) = 2
    /\ "lump_sum" \in DOMAIN comparison.cases[1].tax_result.deduction_detail
    /\ {"basic", "child"} \subseteq DOMAIN comparison.cases[2].tax_result.deduction_detail

\* C13: maxSavings is the greatest final tax of the scenarios minus the
\* least; it is 0 or more, equals the worst final tax minus the optimal
\* scenario's, and is 0 when all scenarios (or the only one) have the same
\* final tax.
C13_MaxSavings ==
    pc = "compared" =>
        /\ \E i, j \in 1..Len(comparison.cases) :
               /\ \A k \in 1..Len(comparison.cases) :
                      /\ ZLe(ScenarioTax(k), ScenarioTax(i))
                      /\ ZLe(ScenarioTax(j), ScenarioTax(k))
               /\ comparison.max_savings = ZSub(ScenarioTax(i), ScenarioTax(j))
               /\ comparison.max_savings =
                      ZSub(ScenarioTax(i), comparison.optimal_case.tax_result.final_tax)
        /\ ZLe(Z(0), comparison.max_savings)
        /\ (\A i, j \in 1..Len(comparison.cases) : ScenarioTax(i) = ScenarioTax(j))
               => comparison.max_savings = Z(0)

\* C13: three scenarios, the last of them dearer than the first, and the
\* saving between these two
C13_SavingAmongThree ==
    /\ pc = "compared"
    /\ Len(comparison.cases) = 3
    /\ ZLt(ScenarioTax(1), ScenarioTax(3))
    /\ comparison.max_savings = ZSub(ScenarioTax(3), ScenarioTax(1))
    /\ ZLt(Z(0), comparison.max_savings)

\* C13: a single scenario, and no saving
C13_OnlyScenario ==
    /\ pc = "compared"
    /\ Len(comparison.cases) = 1
    /\ comparison.max_savings = Z(0)

\* the deduction that calculate_deductions reported under a key: 0 when the
\* mapping has no entry for it
Reported(key) == IF key \in DOMAIN detail THEN detail[key] ELSE Z(0)

\* F = financial + securities + insurance
C14F == ZAdd(ZAdd(estate.asset.financial, estate.asset.securities), estate.asset.insurance)

\* C14: with F = financial + securities + insurance (cash and real estate
\* not counted), the financial-asset deduction is F when F < 20,000,000,
\* 20,000,000 when 20,000,000 <= F <= 100,000,000 and min(floor(F x 0.20),
\* 200,000,000) above; 19,999,999 gives 19,999,999, 20,000,000 and
\* 100,000,000 give 20,000,000, 150,000,000 gives 30,000,000 and
\* 2,000,000,000 gives 200,000,000.
C14_FinancialDeduction ==
    pc = "deducted" =>
        /\ Reported("financial") =
               (IF ZLt(C14F, Man(2000)) THEN C14F
                ELSE IF ZLe(C14F, EokTimes(1)) THEN Man(2000)
                ELSE ZMin(ExactShare(C14F, 20, 100), EokTimes(2)))
        /\ C14F = Z(19999999) => Reported("financial") = Z(19999999)
        /\ C14F = Man(2000) => Reported("financial") = Man(2000)
        /\ C14F = EokTimes(1) => Reported("financial") = Man(2000)
        /\ C14F = Man(15000) => Reported("financial") = Man(3000)
        /\ C14F = EokTimes(20) => Reported("financial") = EokTimes(2)

\* C14: F = 100,000,001 beside 300,000,000 in cash: 20,000,000.2 was
\* floored, and the cash was not counted
C14_JustAboveFixedBand ==
    /\ pc = "deducted"
    /\ C14F = ZAdd(EokTimes(1), Z(1))
    /\ estate.asset.cash = EokTimes(3)
    /\ detail["financial"] = Man(2000)

\* C14: F = 2,000,000,000, and the deduction stopped at 200,000,000
C14_Capped ==
    /\ pc = "deducted"
    /\ C14F = EokTimes(20)
    /\ detail["financial"] = EokTimes(2)

\* f[1] + ... + f[n] for machine-size numbers
RECURSIVE SumTo(_, _)
SumTo(f, n) == IF n = 0 THEN 0 ELSE f[n] + SumTo(f, n - 1)

\* the personal deductions of claim C15 in units of 10,000,000 won: 5 a
\* child, 19 - age a minor child, 5 an elderly child or parent, the life
\* expectancy of a disabled child and of a disabled spouse
C15PersonalUnits ==
    LET children == estate.heir.children
        n        == Len(children)
    IN  5 * n
        + SumTo([i \in 1..n |-> IF children[i].age < 19 THEN 19 - children[i].age ELSE 0], n)
        + 5 * (SumTo([i \in 1..n |-> IF children[i].age >= 65 THEN 1 ELSE 0], n)
                   + estate.heir.num_elderly_parents)
        + SumTo([i \in 1..n |-> IF children[i].is_disabled
                                THEN children[i].life_expectancy ELSE 0], n)
        + (IF estate.heir.spouse.exists /\ estate.heir.spouse.is_disabled
           THEN estate.heir.spouse.life_expectancy ELSE 0)

\* the entries that make the base deduction under ITEMIZED
C15BaseKeys == {"basic", "child", "minor", "elderly", "disabled"}

\* C15: the base deduction depends only on the mode: under LUMP_SUM the
\* mapping has the single base entry 500,000,000 and no basic, child, minor,
\* elderly or disabled entry; under ITEMIZED it has no lump-sum entry and
\* its base entries sum to 200,000,000 + 50,000,000 a child + (19 - age) x
\* 10,000,000 a minor child + 50,000,000 an elderly child or parent + life
\* expectancy x 10,000,000 a disabled child and a disabled spouse; the
\* spouse never counts as elderly.
C15_BaseDeduction ==
    pc = "deducted" =>
        /\ call.deduction_type = LUMP_SUM =>
               /\ "lump_sum" \in DOMAIN detail
               /\ detail["lump_sum"] = EokTimes(5)
               /\ DOMAIN detail \cap C15BaseKeys = {}
        /\ call.deduction_type = ITEMIZED =>
               /\ "lump_sum" \notin DOMAIN detail
               /\ ZSum(<<Reported("basic"), Reported("child"), Reported("minor"),
                         Reported("elderly"), Reported("disabled")>>)
                      = ZAdd(EokTimes(2), ZScale(Man(1000), C15PersonalUnits))

\* C15: itemized deductions of an estate with a spouse of 70 and a
\* child of 65: the elderly deduction is the child's 50,000,000 alone
C15_ElderlySpouseNotCounted ==
    /\ pc = "deducted"
    /\ call.deduction_type = ITEMIZED
    /\ estate.heir.spouse.exists
    /\ estate.heir.spouse.age >= 65
    /\ estate.heir.children = <<Child(19, FALSE), Child(65, FALSE)>>
    /\ estate.heir.num_elderly_parents = 0
    /\ detail["elderly"] = Man(5000)
    /\ detail["basic"] = EokTimes(2)

\* C16: the co-residence deduction is min(houseValue, 600,000,000) when
\* eligible, coResidenceYears >= 10 and heirIsHomeless all hold, and 0 when
\* any one of the three fails.
C16_CoResidenceDeduction ==
    pc = "deducted" =>
        Reported("co_residence") =
            (IF /\ estate.co_residence.eligible
                /\ estate.co_residence.co_residence_years >= 10
                /\ estate.co_residence.heir_is_homeless
             THEN ZMin(estate.co_residence.house_value, EokTimes(6))
             ELSE Z(0))

\* C16: a house of 600,000,001 after exactly 10 years, all three conditions
\* met: 600,000,000 was deducted
C16_TenYearsCapped ==
    /\ pc = "deducted"
    /\ estate.co_residence.eligible
    /\ estate.co_residence.heir_is_homeless
    /\ estate.co_residence.co_residence_years = 10
    /\ estate.co_residence.house_value = Z(600000001)
    /\ detail["co_residence"] = EokTimes(6)

\* C16: a house of 300,000,000 after 30 years with an heir who owns a
\* home: nothing was deducted
C16_HeirOwnsHome ==
    /\ pc = "deducted"
    /\ estate.co_residence.eligible
    /\ ~estate.co_residence.heir_is_homeless
    /\ estate.co_residence.co_residence_years = 30
    /\ estate.co_residence.house_value = EokTimes(3)
    /\ "co_residence" \notin DOMAIN detail

\* the deduction that the call computes for a category, 0 for a category it
\* does not compute: the lump sum under LUMP_SUM, the basic and the personal
\* deductions under ITEMIZED, the spousal deduction for a spouse with an
\* allocation above 0 (the allocation 0 is the case of claim C2)
C17Computed(key) ==
    CASE key = "lump_sum" ->
             IF call.deduction_type = LUMP_SUM THEN LUMP_SUM_DEDUCTION ELSE Z(0)
      [] key = "basic" ->
             IF call.deduction_type = ITEMIZED THEN BASIC_DEDUCTION ELSE Z(0)
      [] key = "child" ->
             IF call.deduction_type = ITEMIZED THEN calculate_child_deduction(estate)
             ELSE Z(0)
      [] key = "minor" ->
             IF call.deduction_type = ITEMIZED THEN calculate_minor_deduction(estate)
             ELSE Z(0)
      [] key = "elderly" ->
             IF call.deduction_type = ITEMIZED THEN calculate_elderly_deduction(estate)
             ELSE Z(0)
      [] key = "disabled" ->
             IF call.deduction_type = ITEMIZED THEN calculate_disabled_deduction(estate)
             ELSE Z(0)
      [] key = "spouse" ->
             IF estate.heir.spouse.exists /\ ZLt(Z(0), call.spouse_inheritance_amount)
             THEN calculate_spouse_deduction(estate, call.spouse_inheritance_amount)
             ELSE Z(0)
      [] key = "financial" -> calculate_financial_deduction(estate)
      [] key = "co_residence" -> calculate_co_residence_deduction(estate)

SkipHeirs ==
    Len(estate.heir.children) + estate.heir.num_elderly_parents
        + (IF estate.heir.spouse.exists THEN 1 ELSE 0)

\* the skip amount of claims C18 and C20: grandchildAmount when it is not 0,
\* else floor(taxableInheritance / totalHeirs) when a child flagged
\* isGrandchild has its parent alive, else 0
SkipAmount ==
    IF call.grandchild_amount /= Z(0) THEN call.grandchild_amount
    ELSE IF \E i \in DOMAIN estate.heir.children :
                estate.heir.children[i].is_grandchild /\ estate.heir.children[i].parent_alive
         THEN ZFloorDiv(call.taxable_inheritance, SkipHeirs)
         ELSE Z(0)

\* the heir is a minor: grandchildIsMinor, or a child flagged isGrandchild
\* of age below 19
SkipMinor ==
    \/ call.grandchild_is_minor
    \/ \E i \in DOMAIN estate.heir.children :
           estate.heir.children[i].is_grandchild /\ estate.heir.children[i].age < 19

\* the rate in percent: 40 for a minor with a skip amount above 2,000,000,000
SkipPercent == IF SkipMinor /\ ZLt(EokTimes(20), SkipAmount) THEN 40 ELSE 30

\* C18: when the skip amount is not 0 and taxableInheritance > 0,
\* generationSurcharge = floor(calculatedTax x (skipAmount /
\* taxableInheritance) x rate), the rate 40% exactly for a minor heir with
\* skipAmount > 2,000,000,000 and 30% otherwise (a minor with exactly
\* 2,000,000,000 included).
C18_SurchargeFormula ==
    (/\ pc = "surcharged"
     /\ ZLt(Z(0), call.taxable_inheritance)
     /\ SkipAmount /= Z(0))
        => tax = MDivSticky(ZScale(ZMul(call.base_tax, SkipAmount), SkipPercent),
                            ZScale(call.taxable_inheritance, 100))[1]

\* C19: generationSurcharge is 0 whenever no child is flagged isGrandchild
\* and grandchildAmount = 0, and whenever taxableInheritance <= 0 whatever
\* the grandchildAmount; no division is attempted (the call returns).
C19_NoSurcharge ==
    (/\ pc = "surcharged"
     /\ \/ /\ \A i \in DOMAIN estate.heir.children : ~estate.heir.children[i].is_grandchild
           /\ call.grandchild_amount = Z(0)
        \/ ZLe(call.taxable_inheritance, Z(0)))
        => tax = Z(0)

\* C19: a taxable inheritance below 0, a grandchild amount and a base tax
\* above 0, and no surcharge
C19_NegativeBase ==
    /\ pc = "surcharged"
    /\ ZLt(call.taxable_inheritance, Z(0))
    /\ ZLt(Z(0), call.grandchild_amount)
    /\ ZLt(Z(0), call.base_tax)
    /\ tax = Z(0)

\* C19: a taxable inheritance of 0, by which nothing can be divided, a
\* grandchild amount and a base tax above 0, and no surcharge
C19_ZeroBase ==
    /\ pc = "surcharged"
    /\ call.taxable_inheritance = Z(0)
    /\ ZLt(Z(0), call.grandchild_amount)
    /\ ZLt(Z(0), call.base_tax)
    /\ tax = Z(0)

\* the surcharge for a skip amount that is not 0, each step as the code
\* takes it: int(base_tax * (skip / taxable_inheritance) * rate)
C20Surcharge(skip) ==
    FTrunc(FMul(FMul(FInt(call.base_tax),
                     FDiv(FInt(skip), FInt(call.taxable_inheritance))),
                FLit(IF SkipMinor /\ ZLt(EokTimes(20), skip) THEN 40 ELSE 30, 100)))

\* a child flagged isGrandchild has its parent alive
C20Fallback ==
    \E i \in DOMAIN estate.heir.children :
        estate.heir.children[i].is_grandchild /\ estate.heir.children[i].parent_alive

\* C20: with grandchildAmount = 0 and a child flagged isGrandchild whose
\* parent is alive, the skip amount is floor(taxableInheritance /
\* totalHeirs), one share however many such grandchildren there are; a
\* grandchildAmount that is not 0 is the skip amount instead; if the
\* fallback yields 0 the surcharge is 0.
C20_SkipAmount ==
    (pc = "surcharged" /\ ZLt(Z(0), call.taxable_inheritance)) =>
        /\ (call.grandchild_amount = Z(0) /\ C20Fallback) =>
               tax = (IF ZFloorDiv(call.taxable_inheritance, SkipHeirs) = Z(0) THEN Z(0)
                      ELSE C20Surcharge(ZFloorDiv(call.taxable_inheritance, SkipHeirs)))
        /\ call.grandchild_amount /= Z(0) => tax = C20Surcharge(call.grandchild_amount)
        /\ (call.grandchild_amount = Z(0) /\ ~C20Fallback) => tax = Z(0)

\* C20: two grandchildren with their parents alive among three heirs and no
\* grandchild amount: the skip amount was one third of 4,995,000,000
C20_OneShareForTwo ==
    /\ pc = "surcharged"
    /\ call.grandchild_amount = Z(0)
    /\ call.taxable_inheritance = ZSub(EokTimes(50), Man(500))
    /\ call.base_tax = Man(1000)
    /\ SkipHeirs = 3
    /\ Cardinality({i \in DOMAIN estate.heir.children :
                       estate.heir.children[i].is_grandchild
                       /\ estate.heir.children[i].parent_alive}) = 2
    /\ tax = C20Surcharge(Z(1665000000))
    /\ ZLt(Z(0), tax)

\* C20: a taxable inheritance of 1 among two heirs or more: the share is 0,
\* and so is the surcharge
C20_FallbackOfZero ==
    /\ pc = "surcharged"
    /\ call.grandchild_amount = Z(0)
    /\ C20Fallback
    /\ call.taxable_inheritance = Z(1)
    /\ SkipHeirs >= 2
    /\ ZLt(Z(0), call.base_tax)
    /\ tax = Z(0)

\* C21: filingCredit = floor(3% x (calculatedTax + generationSurcharge)) when
\* the return is filed on time and 0 when it is not; the base of the credit
\* includes the generation-skip surcharge.
C21_FilingCredit ==
    pc = "taxed" =>
        result.filing_credit =
            IF estate.file_on_time
            THEN ExactShare(ZAdd(result.calculated_tax, result.generation_surcharge),
                            3, 100)
            ELSE Z(0)

\* C21: a return filed on time with a surcharge, where 3% of the bracket tax
\* alone would be a smaller credit
C21_SurchargeInBase ==
    /\ pc = "taxed"
    /\ estate.file_on_time
    /\ ZLt(Z(0), result.generation_surcharge)
    /\ ZLt(ExactShare(result.calculated_tax, 3, 100), result.filing_credit)

\* C21: a late return with tax due and a surcharge earns no credit
C21_LateReturn ==
    /\ pc = "taxed"
    /\ ~estate.file_on_time
    /\ ZLt(Z(0), result.generation_surcharge)
    /\ result.filing_credit = Z(0)

\* C22: when netInheritance = 0, compare_cases raises nothing: the fraction
\* of the estate allotted to the spouse is taken as 0, every generated
\* scenario is evaluated, and every scenario has calculatedTax = 0,
\* generationSurcharge = 0 and finalTax = 0.
C22_ZeroNetInheritance ==
    (pc = "compared" /\ net_inheritance(estate) = Z(0)) =>
        /\ ~Raised(comparison)
        /\ Len(comparison.cases) = Len(generate_cases(estate))
        /\ \A i \in 1..Len(comparison.cases) :
               LET case == comparison.cases[i]
               IN  /\ case.spouse_inheritance = generate_cases(estate)[i][3]
                   /\ case.deduction_type = generate_cases(estate)[i][4]
                   /\ spouse_inheritance_ratio(estate, case.spouse_inheritance)
                          = FInt(Z(0))
                   /\ case.tax_result.calculated_tax = Z(0)
                   /\ case.tax_result.generation_surcharge = Z(0)
                   /\ case.tax_result.final_tax = Z(0)

\* C22: nothing is left of the estate of a decedent with a spouse and
\* children, and an amount is named for a grandchild
C22_SpouseAndNothingLeft ==
    /\ pc = "compared"
    /\ net_inheritance(estate) = Z(0)
    /\ has_spouse(estate.heir)
    /\ Len(estate.heir.children) > 0
    /\ call.grandchild_amount /= Z(0)
    /\ Len(comparison.cases) = 1

\* C22: nothing is left of the estate of a decedent without spouse or children
C22_NoHeirsAndNothingLeft ==
    /\ pc = "compared"
    /\ net_inheritance(estate) = Z(0)
    /\ ~has_spouse(estate.heir)
    /\ Len(estate.heir.children) = 0
    /\ Len(comparison.cases) = 2

C25Estate ==
    /\ estate.asset = AssetOf(EokTimes(10), EokTimes(5))
    /\ estate.heir.spouse = Spouse(TRUE, Z(0))
    /\ estate.heir.children = <<Child(30, FALSE), Child(30, FALSE)>>
    /\ estate.deductions = DeductionsOf(Z(0), Z(0), Z(0), Z(0))
    /\ estate.prior_gift = PriorGiftOf(Z(0), Z(0))
    /\ estate.file_on_time

\* 0 <= finalTax <= calculatedTax
C25Within(tax_result) ==
    /\ ZLe(Z(0), tax_result.final_tax)
    /\ ZLe(tax_result.final_tax, tax_result.calculated_tax)

\* C25: the example estate has totalInheritance = 1,500,000,000 and
\* netInheritance = 1,495,000,000, and in each of its scenarios, nothing
\* being left to a grandchild,
\* 0 <= finalTax <= calculatedTax = calculate_tax_amount(taxableAmount); and
\* 0 <= finalTax <= calculatedTax for every estate and scenario whose
\* generationSurcharge is 0.
C25_Example ==
    /\ (pc = "compared" /\ C25Estate) =>
           /\ total_inheritance(estate) = EokTimes(15)
           /\ net_inheritance(estate) = ZSub(EokTimes(15), Man(500))
           /\ \A i \in 1..Len(comparison.cases) :
                  LET tax_result == comparison.cases[i].tax_result
                  IN  /\ tax_result.total_inheritance = EokTimes(15)
                      /\ tax_result.taxable_inheritance = ZSub(EokTimes(15), Man(500))
                      /\ tax_result.calculated_tax
                             = calculate_tax_amount(tax_result.taxable_amount)
                      /\ call.grandchild_amount = Z(0) =>
                             /\ tax_result.generation_surcharge = Z(0)
                             /\ C25Within(tax_result)
    /\ pc = "compared" =>
           \A i \in 1..Len(comparison.cases) :
               comparison.cases[i].tax_result.generation_surcharge = Z(0) =>
                   C25Within(comparison.cases[i].tax_result)
    /\ (pc = "taxed" /\ result.generation_surcharge = Z(0)) => C25Within(result)

\* C25: the example estate compared, with tax due in a scenario and a filing
\* credit that brings the final tax below it
C25_ExampleCompared ==
    /\ pc = "compared"
    /\ C25Estate
    /\ call.grandchild_amount = Z(0)
    /\ \E i \in 1..Len(comparison.cases) :
           /\ ZLt(Z(0), comparison.cases[i].tax_result.final_tax)
           /\ ZLt(comparison.cases[i].tax_result.final_tax,
                  comparison.cases[i].tax_result.calculated_tax)

\* C26: with a spouse, netInheritance >= 500,000,000 and a spouse allocation
\* above 0, the spousal deduction is at least 500,000,000.
C26_SpouseMinimum ==
    (/\ pc = "deducted"
     /\ estate.heir.spouse.exists
     /\ ZLe(EokTimes(5), net_inheritance(estate))
     /\ ZLt(Z(0), call.spouse_inheritance_amount))
        => /\ "spouse" \in DOMAIN detail
           /\ ZLe(EokTimes(5), detail["spouse"])

\* C27: when there are children flagged as grandchildren and each of them
\* has parent_alive = FALSE, the surcharge is 0 for every grandchild_amount
\* and grandchild_is_minor.
C27_NearestHeirExempt ==
    (/\ pc = "surcharged"
     /\ has_generation_skip(estate.heir)
     /\ \A i \in 1..Len(estate.heir.children) :
            estate.heir.children[i].is_grandchild =>
                ~estate.heir.children[i].parent_alive)
        => tax = Z(0)

\* the net inheritance of an estate whose deductions leave the amounts of
\* the two calls taxable
C28Net == EokTimes(60)

\* C28: calculate_tax_amount is non-decreasing: of two calls the one with
\* the larger amount never returns the smaller tax, across the bounds of the
\* table and after truncation; so of two total deductions of one estate the
\* larger never gives the larger calculatedTax.
C28_Monotonic ==
    pc = "computed again" =>
        LET first == collected[1]
        IN  /\ ZLe(first.taxable_amount, call.taxable_amount) => ZLe(first.tax, tax)
            /\ ZLe(call.taxable_amount, first.taxable_amount) => ZLe(tax, first.tax)
            /\ ZLe(ZSub(C28Net, first.taxable_amount), ZSub(C28Net, call.taxable_amount))
                   => ZLe(calculate_tax_amount(
                              TaxableAmount(C28Net, ZSub(C28Net, call.taxable_amount))),
                          calculate_tax_amount(
                              TaxableAmount(C28Net, ZSub(C28Net, first.taxable_amount))))

\* C28: 100,000,000 and 100,000,001, on either side of the first bound, are
\* both taxed 10,000,000 once the tax is truncated
C28_AcrossFirstBound ==
    /\ pc = "computed again"
    /\ collected[1].taxable_amount = EokTimes(1)
    /\ call.taxable_amount = ZAdd(EokTimes(1), Z(1))
    /\ collected[1].tax = Man(1000)
    /\ tax = Man(1000)

\* C29: for every grandchild_amount >= 0, also above the net inheritance,
\* 0 <= generationSurcharge <= floor(40% x calculatedTax).
C29_SurchargeBounded ==
    (pc = "taxed" /\ ZLe(Z(0), call.grandchild_amount)) =>
        /\ ZLe(Z(0), result.generation_surcharge)
        /\ ZLe(result.generation_surcharge, ExactShare(result.calculated_tax, 40, 100))

C30_GoBackEarlier ==
    [][(GoBack /\ step_history /= <<>>) =>
           /\ step' < step
           /\ \A i \in 1..Len(step_history') : step_history'[i] < step']_vars

\* C30: after go_back every step left in step_history is strictly earlier
\* than the step gone back to
C30_HistoryEarlier ==
    [][(GoBack /\ step_history /= <<>>) =>
           \A i \in 1..Len(step_history') : step_history'[i] < step']_vars

====
